---- MODULE Spec2Model ----
(***************************************************************************)
(* A model of arbiter's OpenAPIStore (src/src/store/openApiStore.ts): the  *)
(* schema synthesizer and merge engine, path templating, and the store's   *)
(* recordEndpoint / getOpenAPISpec / generateHAR / clear operations.       *)
(*                                                                         *)
(* JavaScript values are records tagged by k; a number is held in tenths   *)
(* (n = 10 * value) so that 1 and 1.5 are both representable.  A schema is *)
(* a record with exactly the keys the code gives the object literal, so    *)
(* record equality is equality of JSON.stringify; the properties of an     *)
(* object schema are a sequence of <<name, schema>> in insertion order.    *)
(***************************************************************************)
EXTENDS Integers, Sequences, FiniteSets, TLC

VARIABLES
  samples,    \* pure-function run: the decoded sample values
  schemas,    \* generateJsonSchema of each sample
  merged,     \* deepMergeSchemas(schemas)
  copies,     \* deepMergeSchemas of N copies of merged
  mergedAB,   \* deepMergeSchemas(<<A, B>>)
  mergedBA,   \* deepMergeSchemas(<<B, A>>)
  spc,        \* position of the pure-function run
  path,       \* templating run: the concrete request path (a sequence of characters)
  method,     \* templating run: the request method
  key1,       \* the endpoint key recordEndpoint derives from path
  key2,       \* the endpoint key derived from the templated path of key1
  ppc,        \* position of the templating run
  endpoints,        \* this.endpoints: key -> EndpointInfo
  harEntries,       \* this.harEntries
  targetUrl,        \* this.targetUrl
  schemaCache,      \* this.schemaCache: slot -> the schemas sampled so far
  securitySchemes,  \* this.securitySchemes: name -> scheme
  rawDataCache,     \* this.rawDataCache: path -> method -> raw response
  nCalls,           \* recordEndpoint calls made since the last clear
  appended,         \* the exchange that created each archive entry
  called,           \* the exchange of every call since the last clear
  fresh,            \* a store constructed at the last clear, given the same calls
  cleared,          \* whether clear() has run
  requests,         \* proxy: the requests forwarded upstream, in order of arrival
  stage,            \* proxy: how far each request has come
  immediates,       \* proxy: the callbacks queued by setImmediate, oldest first
  harStoreEntries,  \* proxy: harStore.har.log.entries
  archivedFor,      \* proxy: the request each archive entry was added for
  unparsed,         \* recovery run: the text that did not parse, as characters
  inferred,         \* recovery run: generateSchemaFromStructure of the text
  mwReq,            \* middleware: the requests that entered a middleware
  mwPhase,          \* middleware: how far the run for each request has come
  mwLog             \* middleware: how each finished run ended

schemaVars == <<samples, schemas, merged, copies, mergedAB, mergedBA, spc>>

pathVars == <<path, method, key1, key2, ppc>>

storeVars ==
  <<endpoints, harEntries, targetUrl, schemaCache, securitySchemes,
    rawDataCache, nCalls, appended, called>>

shadowVars == <<fresh, cleared>>

proxyVars == <<requests, stage, immediates, harStoreEntries, archivedFor>>

recoveryVars == <<unparsed, inferred>>

middlewareVars == <<mwReq, mwPhase, mwLog>>

vars ==
  <<schemaVars, pathVars, storeVars, shadowVars, proxyVars, recoveryVars,
    middlewareVars>>

----------------------------------------------------------------------------
(* Bounds of the model *)

MaxSamples == 3
MaxArrayLen == 2
MaxCopies == 3
MaxPathLen == 4
MaxCalls == 3
MaxProxied == 2
MaxTextLen == 5

----------------------------------------------------------------------------
(* JavaScript values *)

VUndefined == [k |-> "undefined"]
VNull == [k |-> "null"]
VBool(b) == [k |-> "boolean", b |-> b]
VNum(n) == [k |-> "number", n |-> n]
VStr(s) == [k |-> "string", s |-> s]
VArr(elems) == [k |-> "array", elems |-> elems]
VObj(fields) == [k |-> "object", fields |-> fields]

\* typeof v
typeof(v) ==
  IF v.k \in {"null", "array", "object"} THEN "object" ELSE v.k

\* Array.isArray(v)
isArray(v) == v.k = "array"

\* Number.isInteger(v)
isInteger(v) == v.k = "number" /\ v.n % 10 = 0

\* typeof item === 'object' && item !== null && !Array.isArray(item)
isPlainObject(v) == v.k = "object"

SeqRange(s) == {s[i] : i \in 1..Len(s)}

BoundedSeq(S, n) == UNION {[1..m -> S] : m \in 0..n}

----------------------------------------------------------------------------
(* Schema Synthesizer: generateJsonSchema *)

RECURSIVE generateJsonSchema(_)
RECURSIVE deepMergeSchemas(_)

\* A synthesizer that calls every number an integer.
generateNumberSchemaAlwaysInteger(obj) ==
  [type |-> "integer", example |-> obj]

generateNumberSchema(obj) ==
  IF isInteger(obj)
    THEN [type |-> "integer", example |-> obj]
    ELSE [type |-> "number", example |-> obj]

\* typeMap[typeof obj] || 'string'
typeMap(t) ==
  CASE t = "string" -> "string"
    [] t = "boolean" -> "boolean"
    [] t = "bigint" -> "integer"
    [] OTHER -> "string"

generateArraySchema(obj) ==
  LET elems == obj.elems
      n == Len(elems)
      allObjects == \A i \in 1..n : isPlainObject(elems[i])
      allPrimitives ==
        \A i \in 1..n : typeof(elems[i]) \in {"string", "number", "boolean"}
      firstItemType == typeof(elems[1])
      sameType == \A i \in 1..n : typeof(elems[i]) = firstItemType
      isAllIntegers == \A i \in 1..n : isInteger(elems[i])
      itemSchemas == [i \in 1..n |-> generateJsonSchema(elems[i])]
  IN  IF n = 0
        THEN [type |-> "array", items |-> [type |-> "object"]]
      ELSE IF allObjects
        THEN [type |-> "array", items |-> generateJsonSchema(elems[1]),
              example |-> obj]
      ELSE IF allPrimitives /\ sameType
        THEN IF firstItemType = "number"
               THEN [type |-> "array",
                     items |-> [type |-> IF isAllIntegers THEN "integer"
                                                         ELSE "number"],
                     example |-> obj]
               ELSE [type |-> "array", items |-> [type |-> firstItemType],
                     example |-> obj]
      ELSE IF \A i \in 1..n : itemSchemas[i] = itemSchemas[1]
        THEN [type |-> "array", items |-> itemSchemas[1], example |-> obj]
      ELSE [type |-> "array",
            items |-> [type |-> "object", oneOf |-> itemSchemas],
            example |-> obj]

\* the entries a plain object {} ends up with after properties[key] = value
\* for each field: assigning to __proto__ sets the prototype and leaves no
\* property of its own
ownFields(fields) ==
  LET IsOwn(f) == f[1] # "__proto__"
  IN SelectSeq(fields, IsOwn)

generateJsonSchema(obj) ==
  IF obj.k = "null" THEN [type |-> "null"]
  ELSE IF isArray(obj) THEN generateArraySchema(obj)
  ELSE IF typeof(obj) = "object"
    THEN [type |-> "object",
          properties |-> [i \in 1..Len(ownFields(obj.fields)) |->
                            <<ownFields(obj.fields)[i][1],
                              generateJsonSchema(ownFields(obj.fields)[i][2])>>],
          example |-> obj]
  ELSE IF typeof(obj) = "number" THEN generateNumberSchema(obj)
  ELSE [type |-> typeMap(typeof(obj)), example |-> obj]

----------------------------------------------------------------------------
(* Schema Merge Engine: deepMergeSchemas *)

\* the names every plain object inherits from Object.prototype
InheritedNames ==
  {"constructor", "toString", "toLocaleString", "valueOf", "hasOwnProperty",
   "isPrototypeOf", "propertyIsEnumerable", "__defineGetter__",
   "__defineSetter__", "__lookupGetter__", "__lookupSetter__", "__proto__"}

\* what mergedProperties[key] reads for a name inherited from Object.prototype
\* that is no property of the object itself: a function; it has no type
InheritedMember == [type |-> "undefined"]

\* the prototype a plain object {} is created with
ObjectPrototype == [type |-> "undefined", prototype |-> "Object.prototype"]

\* a member of a schema read as if it were a schema: the string of its type,
\* the array of its alternatives, the object of its properties; none of them
\* has the type 'object'
InheritedValue(v) == [type |-> "undefined", member |-> v]

\* index of key among the properties the object itself holds, in the order
\* of Object.entries; 0 when it holds none of that name
PropIndex(props, key) ==
  IF \E i \in 1..Len(props) : props[i][1] = key
    THEN CHOOSE i \in 1..Len(props) : props[i][1] = key
    ELSE 0

\* the number an integer-like property name reads as, -1 for any other name
keyIndex(key) ==
  CASE key = "0" -> 0 [] key = "1" -> 1 [] key = "2" -> 2 [] key = "3" -> 3
    [] key = "4" -> 4 [] key = "5" -> 5 [] key = "6" -> 6 [] key = "7" -> 7
    [] key = "8" -> 8 [] key = "9" -> 9 [] key = "10" -> 10
    [] key = "11" -> 11 [] key = "12" -> 12 [] OTHER -> -1

\* object[key] = value for a key the object does not hold: integer-like keys
\* are enumerated first, in ascending order, the others in insertion order
ownAdded(own, key, value) ==
  LET Before(e) == keyIndex(e[1]) >= 0 /\ keyIndex(e[1]) < keyIndex(key)
      After(e) == ~Before(e)
  IN IF keyIndex(key) >= 0
       THEN SelectSeq(own, Before) \o <<<<key, value>>>> \o SelectSeq(own, After)
       ELSE Append(own, <<key, value>>)

\* mergedProperties[key] is not undefined: the object holds the key itself or
\* inherits it from its prototype or from Object.prototype
hasMember(own, proto, key) ==
  \/ PropIndex(own, key) # 0
  \/ key \in InheritedNames
  \/ proto # ObjectPrototype /\ key \in DOMAIN proto

\* mergedProperties[key], for a key that is not undefined
member(own, proto, key) ==
  IF PropIndex(own, key) # 0 THEN own[PropIndex(own, key)][2]
  ELSE IF key = "__proto__" THEN proto
  ELSE IF proto # ObjectPrototype /\ key \in DOMAIN proto
    THEN InheritedValue(proto[key])
  ELSE InheritedMember

RECURSIVE MergeProperties(_, _, _, _)
\* Object.entries(schema.properties).forEach(...) from entry j on, for
\* mergedProperties with the prototype proto: the properties it holds itself
\* afterwards. Assigning to __proto__ on an object that holds no such
\* property replaces its prototype and adds no property.
MergeProperties(mergedProperties, proto, props, j) ==
  IF j > Len(props) THEN mergedProperties
  ELSE LET key == props[j][1]
           value == props[j][2]
           at == PropIndex(mergedProperties, key)
           mergedValue ==
             deepMergeSchemas(<<member(mergedProperties, proto, key), value>>)
       IN IF at = 0 /\ key = "__proto__"
            THEN MergeProperties(mergedProperties, mergedValue, props, j + 1)
          ELSE MergeProperties(
                 IF at # 0
                   THEN [mergedProperties EXCEPT ![at] = <<key, mergedValue>>]
                 ELSE IF hasMember(mergedProperties, proto, key)
                   THEN ownAdded(mergedProperties, key, mergedValue)
                 ELSE ownAdded(mergedProperties, key, value),
                 proto, props, j + 1)

RECURSIVE prototypeAfter(_, _, _, _)
\* the prototype of mergedProperties after the same loop
prototypeAfter(mergedProperties, proto, props, j) ==
  IF j > Len(props) \/ PropIndex(mergedProperties, "__proto__") # 0 THEN proto
  ELSE prototypeAfter(
         mergedProperties,
         IF props[j][1] = "__proto__"
           THEN deepMergeSchemas(<<proto, props[j][2]>>)
           ELSE proto,
         props, j + 1)

RECURSIVE MergeObjectSchemas(_, _, _, _)
\* schemas.forEach(...) from schema i on
MergeObjectSchemas(mergedProperties, proto, schemaList, i) ==
  IF i > Len(schemaList) THEN mergedProperties
  ELSE IF "properties" \in DOMAIN schemaList[i]
    THEN MergeObjectSchemas(
           MergeProperties(mergedProperties, proto,
                           schemaList[i].properties, 1),
           prototypeAfter(mergedProperties, proto,
                          schemaList[i].properties, 1),
           schemaList, i + 1)
  ELSE MergeObjectSchemas(mergedProperties, proto, schemaList, i + 1)

\* A filter that keeps the last of equal schemas instead of the first.
uniqueSchemasLastSeen(schemaList) ==
  LET keep == {i \in 1..Len(schemaList) :
                 \A j \in (i + 1)..Len(schemaList) :
                   schemaList[j] # schemaList[i]}
      F[i \in 0..Len(schemaList)] ==
        IF i = 0 THEN <<>>
        ELSE IF i \in keep THEN Append(F[i - 1], schemaList[i]) ELSE F[i - 1]
  IN F[Len(schemaList)]

\* schemas.filter((schema, index, self) => index === self.findIndex(equal))
uniqueSchemas(schemaList) ==
  LET keep == {i \in 1..Len(schemaList) :
                 \A j \in 1..(i - 1) : schemaList[j] # schemaList[i]}
      F[i \in 0..Len(schemaList)] ==
        IF i = 0 THEN <<>>
        ELSE IF i \in keep THEN Append(F[i - 1], schemaList[i]) ELSE F[i - 1]
  IN F[Len(schemaList)]

deepMergeSchemas(schemaList) ==
  IF Len(schemaList) = 0 THEN [type |-> "object"]
  ELSE IF Len(schemaList) = 1 THEN schemaList[1]
  ELSE IF \A i \in 1..Len(schemaList) : schemaList[i].type = "object"
    THEN [type |-> "object",
          properties |->
            MergeObjectSchemas(<<>>, ObjectPrototype, schemaList, 1)]
  ELSE LET u == uniqueSchemas(schemaList)
       IN IF Len(u) = 1 THEN u[1] ELSE [type |-> "object", oneOf |-> u]

----------------------------------------------------------------------------
(* What it means for a value to satisfy a schema, and schema equality up   *)
(* to the order of oneOf alternatives and of property names.               *)

FieldIndex(fields, key) ==
  IF \E i \in 1..Len(fields) : fields[i][1] = key
    THEN CHOOSE i \in 1..Len(fields) : fields[i][1] = key
    ELSE 0

RECURSIVE Accepts(_, _)
Accepts(s, v) ==
  IF "oneOf" \in DOMAIN s
    THEN \E i \in 1..Len(s.oneOf) : Accepts(s.oneOf[i], v)
  ELSE CASE s.type = "null" -> v.k = "null"
         [] s.type = "boolean" -> v.k = "boolean"
         [] s.type = "integer" -> isInteger(v)
         [] s.type = "number" -> v.k = "number"
         [] s.type = "string" -> v.k = "string"
         [] s.type = "array" ->
              /\ v.k = "array"
              /\ "items" \in DOMAIN s =>
                   \A i \in 1..Len(v.elems) : Accepts(s.items, v.elems[i])
         [] s.type = "object" ->
              /\ v.k = "object"
              /\ "properties" \in DOMAIN s =>
                   \A i \in 1..Len(s.properties) :
                     LET at == FieldIndex(v.fields, s.properties[i][1])
                     IN at # 0 => Accepts(s.properties[i][2], v.fields[at][2])
         [] OTHER -> FALSE

\* As Accepts, but of an array whose members are all objects only the first
\* member is held against the items schema (representative sampling).
RECURSIVE AcceptsSampled(_, _)
AcceptsSampled(s, v) ==
  IF "oneOf" \in DOMAIN s
    THEN \E i \in 1..Len(s.oneOf) : AcceptsSampled(s.oneOf[i], v)
  ELSE CASE s.type = "null" -> v.k = "null"
         [] s.type = "boolean" -> v.k = "boolean"
         [] s.type = "integer" -> isInteger(v)
         [] s.type = "number" -> v.k = "number"
         [] s.type = "string" -> v.k = "string"
         [] s.type = "array" ->
              /\ v.k = "array"
              /\ "items" \in DOMAIN s =>
                   IF Len(v.elems) > 0
                      /\ \A i \in 1..Len(v.elems) : isPlainObject(v.elems[i])
                     THEN AcceptsSampled(s.items, v.elems[1])
                     ELSE \A i \in 1..Len(v.elems) :
                            AcceptsSampled(s.items, v.elems[i])
         [] s.type = "object" ->
              /\ v.k = "object"
              /\ "properties" \in DOMAIN s =>
                   \A i \in 1..Len(s.properties) :
                     LET at == FieldIndex(v.fields, s.properties[i][1])
                     IN at # 0 =>
                          AcceptsSampled(s.properties[i][2], v.fields[at][2])
         [] OTHER -> FALSE

RECURSIVE Canon(_)
Canon(s) ==
  [type |-> s.type,
   properties |-> IF "properties" \in DOMAIN s
                    THEN {{<<s.properties[i][1], Canon(s.properties[i][2])>> :
                             i \in 1..Len(s.properties)}}
                    ELSE {},
   items |-> IF "items" \in DOMAIN s THEN {Canon(s.items)} ELSE {},
   oneOf |-> IF "oneOf" \in DOMAIN s
               THEN {{Canon(s.oneOf[i]) : i \in 1..Len(s.oneOf)}}
               ELSE {},
   example |-> IF "example" \in DOMAIN s THEN {s.example} ELSE {},
   description |-> IF "description" \in DOMAIN s THEN {s.description} ELSE {}]

----------------------------------------------------------------------------
(* Sample values *)

Prims == {VNull, VBool(TRUE), VNum(10), VNum(15), VStr("x")}

SmallObjects ==
  {VObj(<<>>), VObj(<<<<"a", VNum(10)>>>>), VObj(<<<<"a", VStr("x")>>>>),
   VObj(<<<<"b", VNum(15)>>>>),
   VObj(<<<<"a", VNum(10)>>, <<"b", VStr("x")>>>>),
   VObj(<<<<"__proto__", VNum(10)>>, <<"a", VNum(10)>>>>)}

ArrayValues ==
  {VArr(e) : e \in BoundedSeq(Prims \cup SmallObjects, MaxArrayLen)}

NestedValues ==
  {VObj(<<<<"a", VArr(<<VNum(10), VStr("x")>>)>>>>),
   VObj(<<<<"a", VObj(<<<<"b", VNum(10)>>>>)>>>>),
   VArr(<<VArr(<<VObj(<<<<"a", VNum(10)>>>>), VObj(<<<<"a", VStr("x")>>>>)>>),
          VNum(10)>>),
   VArr(<<VArr(<<VNum(10)>>), VArr(<<VNum(10)>>)>>)}

\* the values generateJsonSchema is run on alone
SynthValues == Prims \cup SmallObjects \cup ArrayValues \cup NestedValues

\* the values whose schemas are merged
MergeValues ==
  {VNum(10), VStr("x"), VObj(<<<<"a", VNum(10)>>>>),
   VObj(<<<<"a", VStr("x")>>>>),
   VObj(<<<<"a", VObj(<<<<"b", VNum(10)>>>>)>>>>),
   VObj(<<<<"b", VNum(15)>>>>),
   VObj(<<<<"constructor", VNum(10)>>>>),
   VObj(<<<<"constructor", VStr("x")>>>>),
   VObj(<<<<"2", VNum(10)>>, <<"a", VNum(10)>>>>),
   VObj(<<<<"1", VStr("x")>>, <<"a", VStr("x")>>>>)}

NoSchema == [type |-> "none"]

----------------------------------------------------------------------------
(* Path Templating.  A path is a sequence of one-character strings.        *)

Digits == {"0", "1", "2", "3", "4", "5", "6", "7", "8", "9"}

Letters ==
  {"a", "b", "c", "d", "e", "f", "g", "h", "i", "j", "k", "l", "m", "n", "o",
   "p", "q", "r", "s", "t", "u", "v", "w", "x", "y", "z", "A", "B", "C", "D",
   "E", "F", "G", "H", "I", "J", "K", "L", "M", "N", "O", "P", "Q", "R", "S",
   "T", "U", "V", "W", "X", "Y", "Z"}

\* the regular expression class \w
WordChars == Letters \cup Digits \cup {"_"}

\* the end (exclusive) of the longest run of characters of class C from i on
RECURSIVE RunEnd(_, _, _)
RunEnd(p, i, C) ==
  IF i <= Len(p) /\ p[i] \in C THEN RunEnd(p, i + 1, C) ELSE i

\* path.replace(/\/(\d+)/g, '/{id}')
RECURSIVE replaceNumeric(_, _)
replaceNumeric(p, i) ==
  IF i > Len(p) THEN <<>>
  ELSE IF p[i] = "/" /\ RunEnd(p, i + 1, Digits) > i + 1
    THEN <<"/", "{", "i", "d", "}">>
           \o replaceNumeric(p, RunEnd(p, i + 1, Digits))
    ELSE <<p[i]>> \o replaceNumeric(p, i + 1)

\* path.replace(/:(\w+)/g, '{$1}')
RECURSIVE replaceColon(_, _)
replaceColon(p, i) ==
  IF i > Len(p) THEN <<>>
  ELSE IF p[i] = ":" /\ RunEnd(p, i + 1, WordChars) > i + 1
    THEN <<"{">> \o SubSeq(p, i + 1, RunEnd(p, i + 1, WordChars) - 1)
           \o <<"}">> \o replaceColon(p, RunEnd(p, i + 1, WordChars))
    ELSE <<p[i]>> \o replaceColon(p, i + 1)

\* path.replace(/:(\w+)/g, '{:$1}'): a replacement that keeps the colon
RECURSIVE replaceColonKeepColon(_, _)
replaceColonKeepColon(p, i) ==
  IF i > Len(p) THEN <<>>
  ELSE IF p[i] = ":" /\ RunEnd(p, i + 1, WordChars) > i + 1
    THEN <<"{", ":">> \o SubSeq(p, i + 1, RunEnd(p, i + 1, WordChars) - 1)
           \o <<"}">> \o replaceColonKeepColon(p, RunEnd(p, i + 1, WordChars))
    ELSE <<p[i]>> \o replaceColonKeepColon(p, i + 1)

\* a templating that leaves the colon of a marked segment in place
openApiPathKeepColon(p) == replaceColonKeepColon(replaceNumeric(p, 1), 1)

\* a templating that leaves numeric segments alone
openApiPathNoNumeric(p) == replaceColon(p, 1)

\* path.replace(/\/(\d+)/g, '/{id}').replace(/:(\w+)/g, '{$1}')
openApiPath(p) == replaceColon(replaceNumeric(p, 1), 1)

\* const key = `${method}:${openApiPath}`
endpointKey(m, p) == <<m, openApiPath(p)>>

PathChars == {"/", "1", "a", ":", "{", "}"}

Methods == {"get", "post"}

NoKey == <<"", <<>>>>

PathIdle ==
  /\ path = <<>>
  /\ method = ""
  /\ key1 = NoKey
  /\ key2 = NoKey
  /\ ppc = "idle"

InitPath ==
  /\ path \in BoundedSeq(PathChars, MaxPathLen)
  /\ method \in Methods
  /\ key1 = NoKey
  /\ key2 = NoKey
  /\ ppc = "start"

\* the key under which recordEndpoint files an exchange with this path
TemplatePath ==
  /\ ppc = "start"
  /\ key1' = endpointKey(method, path)
  /\ ppc' = "templated"
  /\ UNCHANGED <<path, method, key2>>

\* the key under which an exchange with the templated path is filed
TemplateAgain ==
  /\ ppc = "templated"
  /\ key2' = endpointKey(method, key1[2])
  /\ ppc' = "again"
  /\ UNCHANGED <<path, method, key1>>

----------------------------------------------------------------------------
(* Ordered maps (a JavaScript Map or object): sequences of <<key, value>>  *)
(* in insertion order.                                                     *)

MapHas(m, key) == PropIndex(m, key) # 0

MapGet(m, key) == m[PropIndex(m, key)][2]

\* Map.prototype.set: overwrite in place, or append
MapSet(m, key, value) ==
  IF MapHas(m, key)
    THEN [m EXCEPT ![PropIndex(m, key)] = <<key, value>>]
    ELSE Append(m, <<key, value>>)

\* o[status] = value on a plain object whose keys are status codes: keys
\* that are integers enumerate in ascending order, whatever the order of
\* assignment
StatusSet(m, status, value) ==
  LET Below(e) == e[1] < status
      Above(e) == e[1] > status
  IN IF MapHas(m, status)
       THEN [m EXCEPT ![PropIndex(m, status)] = <<status, value>>]
       ELSE SelectSeq(m, Below) \o <<<<status, value>>>> \o SelectSeq(m, Above)

\* this.endpoints.set(key, endpoint)
endpointsSet(m, key, value) == MapSet(m, key, value)

----------------------------------------------------------------------------
(* Strings, JSON text and response buffers *)

RECURSIVE Join(_)
\* the string spelled by a sequence of characters
Join(chars) ==
  IF Len(chars) = 0 THEN "" ELSE Head(chars) \o Join(Tail(chars))

\* s.toLowerCase(), for the method names and header values of the model
toLowerCase(m) ==
  CASE m = "GET" -> "get"
    [] m = "POST" -> "post"
    [] m = "PUT" -> "put"
    [] m = "PATCH" -> "patch"
    [] m = "DELETE" -> "delete"
    [] m \in {"GZIP", "Gzip"} -> "gzip"
    [] m \in {"Content-Length", "CONTENT-LENGTH"} -> "content-length"
    [] OTHER -> m

\* method.toUpperCase()
toUpperCase(m) ==
  CASE m = "get" -> "GET" [] m = "post" -> "POST" [] m = "put" -> "PUT"
    [] m = "patch" -> "PATCH" [] m = "delete" -> "DELETE" [] OTHER -> m

\* the truthiness of a JavaScript value
Truthy(v) ==
  CASE v.k \in {"undefined", "null"} -> FALSE
    [] v.k = "boolean" -> v.b
    [] v.k = "number" -> v.n # 0
    [] v.k = "string" -> v.s # ""
    [] OTHER -> TRUE

RECURSIVE JSONstringify(_)
RECURSIVE StringifyElems(_, _)
RECURSIVE StringifyFields(_, _)
RECURSIVE escaped(_, _)

\* the characters of a string from position i on as JSON.stringify writes
\* them inside the quotes
escaped(s, i) ==
  IF i > Len(s) THEN ""
  ELSE (CASE SubSeq(s, i, i) = "\"" -> "\\\""
          [] SubSeq(s, i, i) = "\\" -> "\\\\"
          [] SubSeq(s, i, i) = "\n" -> "\\n"
          [] SubSeq(s, i, i) = "\t" -> "\\t"
          [] SubSeq(s, i, i) = "\r" -> "\\r"
          [] SubSeq(s, i, i) = "\f" -> "\\f"
          [] OTHER -> SubSeq(s, i, i))
         \o escaped(s, i + 1)

\* JSON.stringify(s) of a string
quoted(s) == "\"" \o escaped(s, 1) \o "\""

StringifyElems(elems, i) ==
  IF i > Len(elems) THEN ""
  ELSE (IF i > 1 THEN "," ELSE "") \o JSONstringify(elems[i])
         \o StringifyElems(elems, i + 1)

StringifyFields(fields, i) ==
  IF i > Len(fields) THEN ""
  ELSE (IF i > 1 THEN "," ELSE "") \o quoted(fields[i][1]) \o ":"
         \o JSONstringify(fields[i][2]) \o StringifyFields(fields, i + 1)

\* JSON.stringify(v) of a JSON value (numbers are non-negative)
JSONstringify(v) ==
  CASE v.k = "null" -> "null"
    [] v.k = "boolean" -> IF v.b THEN "true" ELSE "false"
    [] v.k = "number" ->
         IF v.n % 10 = 0 THEN ToString(v.n \div 10)
         ELSE ToString(v.n \div 10) \o "." \o ToString(v.n % 10)
    [] v.k = "string" -> quoted(v.s)
    [] v.k = "array" -> "[" \o StringifyElems(v.elems, 1) \o "]"
    [] v.k = "object" -> "{" \o StringifyFields(v.fields, 1) \o "}"

\* The response texts of the model.
TxtObjA == "{\"a\":1}"
TxtObjASpaced == "{ \"a\": 1 }"
TxtObjAx == "{\"a\":\"x\"}"
TxtLoose == "{id:1,name:'A'}"
TxtLooseCleaned == "{\"id\":1,\"name\":\"A\"}"
TxtPlain == "not json"
TxtBroken == "{a:1,,}"
TxtBrokenCleaned == "{\"a\":1,}"
TxtSingleQuoted == "{'a':1}"
TxtBareKey == "{a:1}"
\* what the bytes of a gzip stream read as when decoded as UTF-8
TxtGzipBytes == "\\u001f\\ufffd\\b..."

ValObjA == VObj(<<<<"a", VNum(10)>>>>)
ValObjAx == VObj(<<<<"a", VStr("x")>>>>)
ValLoose == VObj(<<<<"id", VNum(10)>>, <<"name", VStr("A")>>>>)

\* JSON.parse(text): [ok |-> TRUE, value |-> v], or [ok |-> FALSE] when it throws
JSONparse(text) ==
  CASE text \in {TxtObjA, TxtObjASpaced} -> [ok |-> TRUE, value |-> ValObjA]
    [] text = TxtObjAx -> [ok |-> TRUE, value |-> ValObjAx]
    [] text = TxtLooseCleaned -> [ok |-> TRUE, value |-> ValLoose]
    [] OTHER -> [ok |-> FALSE]

\* cleanJsonString(text): comments and one trailing comma before a closing
\* bracket removed, bare keys quoted, single-quoted strings double-quoted; the
\* other texts of the model have none of these and are returned as they are
cleanJsonString(text) ==
  CASE text = TxtLoose -> TxtLooseCleaned
    [] text = TxtBroken -> TxtBrokenCleaned
    [] text \in {TxtBrokenCleaned, TxtSingleQuoted, TxtBareKey} -> TxtObjA
    [] OTHER -> text

\* text.trim().startsWith('{') || text.trim().startsWith('[')
looksStructured(text) ==
  text \in {TxtObjA, TxtObjASpaced, TxtObjAx, TxtLoose, TxtLooseCleaned,
            TxtBroken, TxtBrokenCleaned, TxtSingleQuoted, TxtBareKey}

\* generateSchemaFromStructure(text): the shape read off the delimiters and
\* the property names of the text
generateSchemaFromStructure(text) ==
  CASE text \in {TxtObjA, TxtObjASpaced, TxtBroken, TxtBrokenCleaned,
                 TxtSingleQuoted, TxtBareKey} ->
         [type |-> "object",
          properties |-> <<<<"a", [type |-> "integer"]>>>>,
          description |-> "Object structure detected with properties"]
    [] text = TxtObjAx ->
         [type |-> "object",
          properties |-> <<<<"a", [type |-> "string"]>>>>,
          description |-> "Object structure detected with properties"]
    [] text \in {TxtLoose, TxtLooseCleaned} ->
         [type |-> "object",
          properties |-> <<<<"id", [type |-> "integer"]>>,
                           <<"name", [type |-> "string"]>>>>,
          description |-> "Object structure detected with properties"]
    [] OTHER -> [type |-> "string", description |-> "Unstructured content"]

\* generateSchemaFromStructure on a text given as its characters.

\* \s of the regular expressions and of trim()
isSpace(c) == c = " "

\* [a-zA-Z0-9_$] of the property matcher
isNameChar(c) == c \in {"a", "b", "1", "2", "_", "$"}

isQuote(c) == c \in {"'", "\""}

isDigit(c) == c \in {"1", "2"}

RECURSIVE trimStart(_)
trimStart(t) ==
  IF Len(t) > 0 /\ isSpace(Head(t)) THEN trimStart(Tail(t)) ELSE t

RECURSIVE trimEnd(_)
trimEnd(t) ==
  IF Len(t) > 0 /\ isSpace(t[Len(t)])
    THEN trimEnd(SubSeq(t, 1, Len(t) - 1)) ELSE t

\* A trim that leaves trailing white space in place.
trimLeadingOnly(t) == trimStart(t)

\* text.trim()
trim(t) == trimEnd(trimStart(t))

\* text.startsWith(c) and text.endsWith(c) for one character
startsWithChar(t, c) == Len(t) > 0 /\ t[1] = c
endsWithChar(t, c) == Len(t) > 0 /\ t[Len(t)] = c

\* the first position from i on that holds no white space
RECURSIVE skipSpaces(_, _)
skipSpaces(t, i) ==
  IF i <= Len(t) /\ isSpace(t[i]) THEN skipSpaces(t, i + 1) ELSE i

\* the last position up to i that holds no white space
RECURSIVE skipSpacesBack(_, _)
skipSpacesBack(t, i) ==
  IF i >= 1 /\ isSpace(t[i]) THEN skipSpacesBack(t, i - 1) ELSE i

\* the first position of the run of name characters that ends at i
RECURSIVE runStart(_, _)
runStart(t, i) ==
  IF i >= 1 /\ isNameChar(t[i]) THEN runStart(t, i - 1) ELSE i + 1

\* the property name the matcher /["']?([a-zA-Z0-9_$]+)["']?\s*:/ finds in
\* front of the colon at position c; <<>> when it matches nothing there
nameBeforeColon(t, c) ==
  LET q == skipSpacesBack(t, c - 1)
      e == IF q >= 1 /\ isQuote(t[q]) THEN q - 1 ELSE q
  IN SubSeq(t, runStart(t, e), e)

\* trimmedText.match(...g), each match cleaned to its property name
RECURSIVE propMatches(_, _)
propMatches(t, c) ==
  IF c > Len(t) THEN <<>>
  ELSE IF t[c] = ":" /\ nameBeforeColon(t, c) # <<>>
    THEN <<nameBeforeColon(t, c)>> \o propMatches(t, c + 1)
  ELSE propMatches(t, c + 1)

\* the property name, put into the pattern as it is, holds a '$': there it
\* stands for the end of the text, and a colon can never follow
hasAnchor(name) == \E i \in 1..Len(name) : name[i] = "$"

\* propPattern.exec(trimmedText) tried at position p: the text captured
\* after the colon, <<>> when the pattern does not match there
valueAt(t, name, p) ==
  LET q == p + Len(name)
      c == skipSpaces(t, IF q <= Len(t) /\ isQuote(t[q]) THEN q + 1 ELSE q)
  IN IF /\ ~hasAnchor(name)
        /\ q - 1 <= Len(t)
        /\ SubSeq(t, p, q - 1) = name
        /\ c <= Len(t)
        /\ t[c] = ":"
       THEN SubSeq(t, c + 1, Len(t))
       ELSE <<>>

\* valueMatch[1] of the first match of the pattern, <<>> when there is none
RECURSIVE valueMatch(_, _, _)
valueMatch(t, name, p) ==
  IF p > Len(t) THEN <<>>
  ELSE IF valueAt(t, name, p) # <<>> THEN valueAt(t, name, p)
  ELSE valueMatch(t, name, p + 1)

\* the schema guessed for a property from the text that follows its colon
guessedProperty(t, name) ==
  LET valueStart == trim(valueMatch(t, name, 1))
  IN IF valueMatch(t, name, 1) = <<>>
       THEN [type |-> "string",
             description |-> "Property detected by structure analysis"]
     ELSE IF startsWithChar(valueStart, "{")
       THEN [type |-> "object", description |-> "Nested object detected"]
     ELSE IF startsWithChar(valueStart, "[")
       THEN [type |-> "array", description |-> "Array value detected",
             items |-> [type |-> "object",
                        description |-> "Array items (structure inferred)"]]
     ELSE IF Len(valueStart) > 0 /\ isQuote(valueStart[1])
       THEN [type |-> "string"]
     ELSE IF Len(valueStart) > 0 /\ isDigit(valueStart[1])
       THEN [type |-> "integer"]
     ELSE [type |-> "string",
           description |-> "Property detected by structure analysis"]

\* the name is an integer-like key of a JavaScript object
isIndexName(name) == Len(name) > 0 /\ \A i \in 1..Len(name) : isDigit(name[i])

\* the number an integer-like key reads as
RECURSIVE indexValue(_)
indexValue(name) ==
  IF Len(name) = 0 THEN 0
  ELSE 10 * indexValue(SubSeq(name, 1, Len(name) - 1))
         + (IF name[Len(name)] = "1" THEN 1 ELSE 2)

\* properties[name] = value for a name not yet present: integer-like keys are
\* enumerated first, in ascending order, the other keys in insertion order
propertyAdded(properties, name, value) ==
  LET Before(e) == isIndexName(e[1]) /\ indexValue(e[1]) < indexValue(name)
      After(e) == ~Before(e)
  IN IF isIndexName(name)
       THEN SelectSeq(properties, Before) \o <<<<name, value>>>>
              \o SelectSeq(properties, After)
       ELSE Append(properties, <<name, value>>)

\* propMatches.forEach(...): one guessed schema per property name, first wins
RECURSIVE guessedProperties(_, _, _, _)
guessedProperties(properties, t, names, i) ==
  IF i > Len(names) THEN properties
  ELSE guessedProperties(
         IF MapHas(properties, names[i]) THEN properties
         ELSE propertyAdded(properties, names[i],
                            guessedProperty(t, names[i])),
         t, names, i + 1)

\* generateSchemaFromStructure(text) for a text given as its characters
generateSchemaFromChars(t) ==
  LET trimmedText == trim(t)
  IN IF startsWithChar(trimmedText, "[") /\ endsWithChar(trimmedText, "]")
       THEN [type |-> "array",
             description |-> "Array-like structure detected",
             items |-> [type |-> "object",
                        description |-> "Array items (structure inferred)"]]
     ELSE IF startsWithChar(trimmedText, "{") /\ endsWithChar(trimmedText, "}")
       THEN IF Len(propMatches(trimmedText, 1)) > 0
              THEN [type |-> "object",
                    properties |->
                      guessedProperties(<<>>, trimmedText,
                                        propMatches(trimmedText, 1), 1),
                    description |->
                      "Object structure detected with properties"]
              ELSE [type |-> "object",
                    description |-> "Object-like structure detected"]
     ELSE [type |-> "string", description |-> "Unstructured content"]

\* A response buffer: gz tells whether the bytes are a gzip stream, text is
\* the text they hold (inside the stream when gz), len their number.
Buf(gz, text, len) == [gz |-> gz, text |-> text, len |-> len]

\* response.rawData is undefined
NoBuffer == [gz |-> FALSE, text |-> "", len |-> -1]

hasRawData(b) == b.len >= 0

\* rawData.toString('base64'); the empty buffer gives ''
toBase64(b) == [b64 |-> b]

\* !rawData of the base64 string
isEmptyBase64(r) == r.b64.len = 0

\* Buffer.from(rawData, 'base64')
fromBase64(r) == r.b64

\* zlib.gunzipSync(buffer): throws unless the bytes are a gzip stream
gunzipSync(b) ==
  IF b.gz THEN [ok |-> TRUE, text |-> b.text] ELSE [ok |-> FALSE]

\* buffer.toString('utf-8')
toStringUtf8(b) == IF b.gz THEN TxtGzipBytes ELSE b.text

CtJson == "application/json"
CtJsonCharset == "application/json; charset=utf-8"
CtText == "text/plain"
CtXml == "application/xml"
CtPng == "image/png"

\* contentType.includes('json')
includesJson(ct) == ct \in {CtJson, CtJsonCharset}

\* contentType.includes('xml')
includesXml(ct) == ct = CtXml

\* contentType.includes('image/')
includesImage(ct) == ct = CtPng

\* contentEncoding.includes('gzip')
includesGzip(enc) == enc = "gzip"

\* header.split(';')[0]
beforeSemicolon(ct) == IF ct = CtJsonCharset THEN CtJson ELSE ct

\* value || fallback, for strings
OrDefault(s, fallback) == IF s = "" THEN fallback ELSE s

\* the value of the first header whose lower-cased name is `name`, "" if none
\* (header names of the model are lower-case)
headerValue(headers, name) ==
  IF MapHas(headers, name) THEN MapGet(headers, name) ELSE ""

HarPlaceholder == "[Content stored but not processed for performance]"
HarError == "[Error processing content]"
DeferredSchema ==
  [type |-> "object",
   description |-> "Schema generation deferred to improve performance"]

\* url.pathname of new URL(path, targetUrl): the path, percent-encoded
RECURSIVE pathname(_)
pathname(p) ==
  IF Len(p) = 0 THEN <<>>
  ELSE (CASE Head(p) = "{" -> <<"%", "7", "B">>
          [] Head(p) = "}" -> <<"%", "7", "D">>
          [] OTHER -> <<Head(p)>>) \o pathname(Tail(p))

----------------------------------------------------------------------------
(* Security Scheme Registry: addSecurityScheme *)

SupportedSecurityTypes == {"apiKey", "oauth2", "http", "openIdConnect"}

DefaultFlows ==
  [implicit |->
     [authorizationUrl |-> "https://example.com/oauth/authorize",
      scopes |-> [read |-> "Read access", write |-> "Write access"]]]

\* the scheme object built in the switch
securityScheme(security) ==
  CASE security.type = "apiKey" ->
         [type |-> "apiKey",
          name |-> IF "name" \in DOMAIN security THEN security.name
                                                 ELSE "x-api-key",
          in |-> IF "in" \in DOMAIN security THEN security.in ELSE "header"]
    [] security.type = "oauth2" ->
         [type |-> "oauth2",
          flows |-> IF "flows" \in DOMAIN security THEN security.flows
                                                   ELSE DefaultFlows]
    [] security.type = "http" ->
         [type |-> "http",
          scheme |-> IF "scheme" \in DOMAIN security THEN security.scheme
                                                     ELSE "bearer"]
    [] security.type = "openIdConnect" ->
         [type |-> "openIdConnect",
          openIdConnectUrl |->
            IF "openIdConnectUrl" \in DOMAIN security
              THEN security.openIdConnectUrl
              ELSE "https://example.com/.well-known/openid-configuration"]

\* A registry that keeps the definition a kind was first registered with.
addSecuritySchemeFirstWins(reg, security) ==
  IF security.type \in SupportedSecurityTypes
    THEN [threw |-> FALSE,
          reg |-> IF MapHas(reg, security.type \o "_") THEN reg
                  ELSE MapSet(reg, security.type \o "_",
                              securityScheme(security)),
          name |-> security.type \o "_"]
    ELSE [threw |-> TRUE, reg |-> reg, name |-> ""]

\* addSecurityScheme(security) on registry reg: the registry after the call,
\* whether it threw, and the scheme name it returned
addSecurityScheme(reg, security) ==
  IF security.type \in SupportedSecurityTypes
    THEN [threw |-> FALSE,
          reg |-> MapSet(reg, security.type \o "_", securityScheme(security)),
          name |-> security.type \o "_"]
    ELSE [threw |-> TRUE, reg |-> reg, name |-> ""]

RECURSIVE mapSecurity(_, _, _, _)
\* request.security.map(addSecurityScheme) from hint i on; stops at a throw
mapSecurity(reg, hints, i, names) ==
  IF i > Len(hints) THEN [threw |-> FALSE, reg |-> reg, names |-> names]
  ELSE LET r == addSecurityScheme(reg, hints[i])
       IN IF r.threw THEN [threw |-> TRUE, reg |-> r.reg, names |-> names]
          ELSE mapSecurity(r.reg, hints, i + 1, Append(names, r.name))

----------------------------------------------------------------------------
(* Endpoint Registry: recordEndpoint *)

\* openApiPath.match(/\{(\w+)\}/g), each match without its braces, from i on
RECURSIVE pathParams(_, _)
pathParams(p, i) ==
  IF i > Len(p) THEN <<>>
  ELSE LET e == RunEnd(p, i + 1, WordChars)
       IN IF p[i] = "{" /\ e > i + 1 /\ e <= Len(p) /\ p[e] = "}"
            THEN <<Join(SubSeq(p, i + 1, e - 1))>> \o pathParams(p, e + 1)
            ELSE pathParams(p, i + 1)

\* endpoint.parameters.some((p) => p.name === name)
hasParameter(parameters, name) ==
  \E i \in 1..Len(parameters) : parameters[i].name = name

RECURSIVE addPathParameters(_, _, _)
addPathParameters(parameters, names, i) ==
  IF i > Len(names) THEN parameters
  ELSE addPathParameters(
         IF hasParameter(parameters, names[i]) THEN parameters
         ELSE Append(parameters,
                     [name |-> names[i], in |-> "path", required |-> TRUE,
                      schema |-> [type |-> "string"]]),
         names, i + 1)

RECURSIVE addQueryParameters(_, _, _)
addQueryParameters(parameters, query, i) ==
  IF i > Len(query) THEN parameters
  ELSE addQueryParameters(
         IF hasParameter(parameters, query[i][1]) THEN parameters
         ELSE Append(parameters,
                     [name |-> query[i][1], in |-> "query",
                      schema |-> [type |-> "string"]]),
         query, i + 1)

RECURSIVE addHeaderParameters(_, _, _)
addHeaderParameters(parameters, headers, i) ==
  IF i > Len(headers) THEN parameters
  ELSE addHeaderParameters(
         IF hasParameter(parameters, headers[i][1]) THEN parameters
         ELSE Append(parameters,
                     [name |-> headers[i][1], in |-> "header",
                      required |-> FALSE,
                      schema |-> [type |-> "string",
                                  example |-> headers[i][2]]]),
         headers, i + 1)

\* Object.entries(response.headers).reduce(...): a fresh header/example map
responseHeaders(headers) ==
  [i \in 1..Len(headers) |->
     <<headers[i][1],
       [schema |-> [type |-> "string", example |-> headers[i][2]],
        description |-> "Response header " \o headers[i][1]]>>]

\* the endpoint a first observation starts from
newEndpoint(p, m) ==
  IF toLowerCase(m) = "get"
    THEN [path |-> openApiPath(p), method |-> m, responses |-> <<>>,
          parameters |-> <<>>]
    ELSE [path |-> openApiPath(p), method |-> m, responses |-> <<>>,
          parameters |-> <<>>,
          requestBody |-> [required |-> FALSE, content |-> <<>>]]

\* Object.entries(headers).map(([name, value]) =>
\*   ({ name: name.toLowerCase(), value: String(value) }))
harHeaders(headers) ==
  [i \in 1..Len(headers) |-> <<toLowerCase(headers[i][1]), headers[i][2]>>]

\* new URL(path, base) throws: the base is no absolute URL
isInvalidUrl(base) ==
  base \notin {"http://localhost:3000", "http://localhost:8080"}

\* what the text of an entry reads when the response has no body:
\* JSON.stringify(undefined) is undefined, no string
UndefinedText == "undefined value"

\* the entry recordHAREntry pushes (startedDateTime, the wall clock, left out)
harEntry(target, x) ==
  [request |->
     [method |-> toUpperCase(x.method),
      url |-> [origin |-> target, pathname |-> pathname(x.path),
               search |-> x.query],
      httpVersion |-> "HTTP/1.1",
      headers |-> harHeaders(x.reqHeaders),
      queryString |-> x.query,
      postData |-> IF Truthy(x.reqBody)
                     THEN <<[mimeType |-> x.reqContentType,
                             text |-> IF x.reqBody.k = "string"
                                        THEN x.reqBody.s
                                        ELSE JSONstringify(x.reqBody)]>>
                     ELSE <<>>],
   response |->
     [status |-> x.status,
      statusText |-> IF x.status = 200 THEN "OK" ELSE "Error",
      httpVersion |-> "HTTP/1.1",
      headers |-> harHeaders(x.resHeaders),
      content |->
        [size |-> IF hasRawData(x.rawData) THEN x.rawData.len
                  ELSE IF Truthy(x.resBody)
                    THEN Len(JSONstringify(x.resBody))
                  ELSE 0,
         mimeType |-> OrDefault(x.resContentType, CtJson),
         text |-> IF hasRawData(x.rawData) THEN HarPlaceholder
                  ELSE IF x.resBody.k = "string" THEN x.resBody.s
                  ELSE IF x.resBody.k = "undefined" THEN UndefinedText
                  ELSE JSONstringify(x.resBody)]]]

\* the key of the persistent per-(endpoint, status, content type) sample cache
schemaKey(key, status, contentType) == <<key, status, contentType>>

\* endpoint.security = request.security.map(...), when hints are given
withSecurity(endpoint, x, names) ==
  IF x.hasSecurity
    THEN [f \in DOMAIN endpoint \cup {"security"} |->
            IF f = "security" THEN names ELSE endpoint[f]]
    ELSE endpoint

\* the path, query and header parameters the call adds, first one wins
withParameters(endpoint, templated, x) ==
  [endpoint EXCEPT
     !.parameters =
        IF x.hasReqHeaders
          THEN addHeaderParameters(
                 addQueryParameters(
                   addPathParameters(@, pathParams(templated, 1), 1),
                   x.query, 1),
                 x.reqHeaders, 1)
          ELSE addQueryParameters(
                 addPathParameters(@, pathParams(templated, 1), 1),
                 x.query, 1)]

\* A request body schema overwritten by every later body.
withRequestBodyLastWins(endpoint, x) ==
  IF /\ Truthy(x.reqBody)
     /\ toLowerCase(x.method) # "get"
     /\ "requestBody" \in DOMAIN endpoint
    THEN [endpoint EXCEPT
            !.requestBody.content =
               MapSet(@, OrDefault(x.reqContentType, CtJson),
                      [schema |-> generateJsonSchema(x.reqBody)])]
    ELSE endpoint

\* the request body schema, kept from the first observation per content type
withRequestBody(endpoint, x) ==
  IF /\ Truthy(x.reqBody)
     /\ toLowerCase(x.method) # "get"
     /\ "requestBody" \in DOMAIN endpoint
     /\ ~MapHas(endpoint.requestBody.content, OrDefault(x.reqContentType, CtJson))
    THEN [endpoint EXCEPT
            !.requestBody.content =
               Append(@, <<OrDefault(x.reqContentType, CtJson),
                           [schema |-> generateJsonSchema(x.reqBody)]>>)]
    ELSE endpoint

\* the response object of the status: created on first sight, its content
\* schema written, its headers replaced when the response carries any
responseObject(responses, x, schema) ==
  LET responseObj ==
        IF MapHas(responses, x.status) THEN MapGet(responses, x.status)
        ELSE [description |-> <<"Response for", toUpperCase(x.method), x.path>>,
              content |-> <<>>]
  IN IF Len(x.resHeaders) > 0
       THEN [description |-> responseObj.description,
             content |-> MapSet(responseObj.content,
                                OrDefault(x.resContentType, CtJson),
                                [schema |-> schema]),
             headers |-> responseHeaders(x.resHeaders)]
       ELSE [responseObj EXCEPT
               !.content = MapSet(@, OrDefault(x.resContentType, CtJson),
                                  [schema |-> schema])]

withResponse(endpoint, x, schema) ==
  [endpoint EXCEPT
     !.responses = StatusSet(@, x.status, responseObject(@, x, schema))]

\* the samples cached for the slot, the schema of this response body appended
existingSchemas(cache, sKey, x) ==
  Append(IF MapHas(cache, sKey) THEN MapGet(cache, sKey) ELSE <<>>,
         generateJsonSchema(x.resBody))

\* rawDataCache after the call: one slot per (path, method), overwritten
cacheRawData(cache, x) ==
  IF hasRawData(x.rawData)
    THEN MapSet(cache, x.path,
                MapSet(IF MapHas(cache, x.path) THEN MapGet(cache, x.path)
                       ELSE <<>>,
                       x.method,
                       [rawData |-> toBase64(x.rawData),
                        status |-> x.status,
                        headers |-> x.resHeaders]))
    ELSE cache

\* recordEndpoint(path, method, request, response) on store st, for exchange x.
\* The result is the store after the call and whether the call threw: on an
\* unsupported security hint, before the endpoint is touched, or in
\* recordHAREntry, the last statement, on a base URL that is no URL.
recordEndpoint(st, x) ==
  LET key == endpointKey(x.method, x.path)
      sec == IF x.hasSecurity
               THEN mapSecurity(st.securitySchemes, x.security, 1, <<>>)
               ELSE [threw |-> FALSE, reg |-> st.securitySchemes,
                     names |-> <<>>]
      sKey == schemaKey(key, x.status, OrDefault(x.resContentType, CtJson))
      existing == existingSchemas(st.schemaCache, sKey, x)
  IN  IF sec.threw
        THEN [threw |-> TRUE,
              st |-> [st EXCEPT !.securitySchemes = sec.reg]]
        ELSE [threw |-> isInvalidUrl(st.targetUrl),
              st |->
                [endpoints |->
                   endpointsSet(
                     st.endpoints, key,
                     withResponse(
                       withRequestBody(
                         withParameters(
                           withSecurity(
                             IF MapHas(st.endpoints, key)
                               THEN MapGet(st.endpoints, key)
                               ELSE newEndpoint(x.path, x.method),
                             x, sec.names),
                           key[2], x),
                         x),
                       x,
                       IF hasRawData(x.rawData) THEN DeferredSchema
                       ELSE deepMergeSchemas(existing))),
                 harEntries |->
                   IF isInvalidUrl(st.targetUrl) THEN st.harEntries
                   ELSE Append(st.harEntries, harEntry(st.targetUrl, x)),
                 targetUrl |-> st.targetUrl,
                 schemaCache |->
                   IF hasRawData(x.rawData) THEN st.schemaCache
                   ELSE MapSet(st.schemaCache, sKey, existing),
                 securitySchemes |-> sec.reg,
                 rawDataCache |-> cacheRawData(st.rawDataCache, x)]]

----------------------------------------------------------------------------
(* Traffic Archive: processHAREntries and generateHAR *)

\* the text of a decoded payload: JSON is normalised, malformed JSON repaired
decodedText(text, contentType) ==
  IF includesJson(contentType)
    THEN IF JSONparse(text).ok THEN JSONstringify(JSONparse(text).value)
         ELSE IF JSONparse(cleanJsonString(text)).ok
           THEN JSONstringify(JSONparse(cleanJsonString(text)).value)
         ELSE text
    ELSE text

\* A loop body that decodes an entry whenever its slot holds bytes.
processHAREntryAgain(entry, cache) ==
  LET p == entry.request.url.pathname
      m == toLowerCase(entry.request.method)
      responseData == MapGet(MapGet(cache, p), m)
      contentEncoding == headerValue(entry.response.headers, "content-encoding")
      buffer == fromBase64(responseData.rawData)
      resolved ==
        IF includesGzip(contentEncoding)
          THEN IF gunzipSync(buffer).ok
                 THEN decodedText(gunzipSync(buffer).text,
                                  entry.response.content.mimeType)
                 ELSE HarError
          ELSE decodedText(toStringUtf8(buffer),
                           entry.response.content.mimeType)
  IN  IF ~MapHas(cache, p) THEN entry
      ELSE IF ~MapHas(MapGet(cache, p), m) THEN entry
      ELSE IF isEmptyBase64(responseData.rawData) THEN entry
      ELSE [entry EXCEPT !.response.content.text = resolved]

\* the body of the loop of processHAREntries for one entry
processHAREntry(entry, cache) ==
  LET p == entry.request.url.pathname
      m == toLowerCase(entry.request.method)
      responseData == MapGet(MapGet(cache, p), m)
      contentEncoding == headerValue(entry.response.headers, "content-encoding")
      buffer == fromBase64(responseData.rawData)
      resolved ==
        IF includesGzip(contentEncoding)
          THEN IF gunzipSync(buffer).ok
                 THEN decodedText(gunzipSync(buffer).text,
                                  entry.response.content.mimeType)
                 ELSE HarError
          ELSE decodedText(toStringUtf8(buffer),
                           entry.response.content.mimeType)
  IN  IF entry.response.content.text # HarPlaceholder THEN entry
      ELSE IF ~MapHas(cache, p) THEN entry
      ELSE IF ~MapHas(MapGet(cache, p), m) THEN entry
      ELSE IF isEmptyBase64(responseData.rawData) THEN entry
      ELSE [entry EXCEPT !.response.content.text = resolved]

processHAREntries(entries, cache) ==
  [i \in 1..Len(entries) |-> processHAREntry(entries[i], cache)]

\* generateHAR(): the archive it returns
generateHAR(entries, cache) ==
  [log |-> [version |-> "1.2",
            creator |-> [name |-> "Arbiter", version |-> "1.0.0"],
            entries |-> processHAREntries(entries, cache)]]

----------------------------------------------------------------------------
(* Document Assembler: processRawData and getOpenAPISpec *)

DescriptionLimit == 100

\* getOperationForPathAndMethod(path, method): the key it looks up
operationKey(p, m) == <<m, openApiPath(p)>>

\* the schema processRawData derives from decoded text
rawTextSchema(text, contentType) ==
  IF includesJson(contentType)
    THEN IF JSONparse(text).ok
           THEN generateJsonSchema(JSONparse(text).value)
         ELSE IF JSONparse(cleanJsonString(text)).ok
           THEN generateJsonSchema(JSONparse(cleanJsonString(text)).value)
         ELSE IF looksStructured(text) THEN generateSchemaFromStructure(text)
         ELSE [type |-> "string", description |-> "Non-parseable content"]
  ELSE IF includesXml(contentType)
    THEN [type |-> "string", format |-> "xml", description |-> "XML content"]
  ELSE IF includesImage(contentType)
    THEN [type |-> "string", format |-> "binary",
          description |-> "Image content"]
  ELSE [type |-> "string",
        description |-> IF Len(text) > DescriptionLimit
                          THEN "(the first 100 characters)..." ELSE text]

\* the body of the loops of processRawData for one (path, method) slot
processRawSlot(eps, p, m, responseData) ==
  LET key == operationKey(p, m)
      operation == MapGet(eps, key)
      status == responseData.status
      headers == responseData.headers
      response0 ==
        IF MapHas(operation.responses, status)
          THEN MapGet(operation.responses, status)
          ELSE [description |-> <<"Response for status code", status>>,
                content |-> <<>>]
      contentType ==
        IF headerValue(headers, "content-type") # ""
          THEN beforeSemicolon(headerValue(headers, "content-type"))
          ELSE CtJson
      contentEncoding == headerValue(headers, "content-encoding")
      buffer == fromBase64(responseData.rawData)
      threw == includesGzip(contentEncoding) /\ ~gunzipSync(buffer).ok
      text == IF includesGzip(contentEncoding) THEN gunzipSync(buffer).text
              ELSE toStringUtf8(buffer)
      response1 ==
        IF threw
          THEN [response0 EXCEPT
                  !.content =
                     MapSet(@, CtText,
                            [schema |->
                               [type |-> "string",
                                description |-> "Error processing content"]])]
          ELSE [response0 EXCEPT
                  !.content =
                     MapSet(@, contentType,
                            [schema |-> rawTextSchema(text, contentType)])]
  IN  IF ~MapHas(eps, key) THEN eps
      ELSE IF isEmptyBase64(responseData.rawData) THEN eps
      ELSE MapSet(eps, key,
                  [operation EXCEPT
                     !.responses = StatusSet(@, status, response1)])

RECURSIVE processRawMethods(_, _, _, _)
processRawMethods(eps, p, methodMap, j) ==
  IF j > Len(methodMap) THEN eps
  ELSE processRawMethods(
         processRawSlot(eps, p, methodMap[j][1], methodMap[j][2]),
         p, methodMap, j + 1)

RECURSIVE processRawPaths(_, _, _)
processRawPaths(eps, cache, i) ==
  IF i > Len(cache) THEN eps
  ELSE processRawPaths(processRawMethods(eps, cache[i][1], cache[i][2], 1),
                       cache, i + 1)

\* processRawData(): the endpoints after it (it then clears the raw cache)
processRawData(eps, cache) == processRawPaths(eps, cache, 1)

\* key.split(':')[1]: the templated path up to its first colon
RECURSIVE beforeColon(_)
beforeColon(p) ==
  IF Len(p) = 0 \/ Head(p) = ":" THEN <<>>
  ELSE <<Head(p)>> \o beforeColon(Tail(p))

RECURSIVE uniqueParams(_, _, _)
\* info.parameters.reduce(...): one formatted parameter per (name, in)
uniqueParams(params, parameters, i) ==
  IF i > Len(parameters) THEN params
  ELSE LET param == parameters[i]
           exists == \E j \in 1..Len(params) :
                       params[j].name = param.name /\ params[j].in = param.in
           formatted ==
             IF param.in = "path"
               THEN [name |-> param.name, in |-> param.in,
                     schema |-> [type |-> "string"], required |-> TRUE]
             ELSE IF param.in = "header" /\ "example" \in DOMAIN param.schema
               THEN [name |-> param.name, in |-> param.in,
                     schema |-> [type |-> "string",
                                 example |-> param.schema.example]]
             ELSE [name |-> param.name, in |-> param.in,
                   schema |-> [type |-> "string"]]
       IN uniqueParams(IF exists THEN params ELSE Append(params, formatted),
                       parameters, i + 1)

\* the operation object built for one endpoint
operationOf(key, info) ==
  LET base == [summary |-> <<toUpperCase(key[1]), beforeColon(key[2])>>,
               responses |-> info.responses]
      extra ==
        (IF Len(info.parameters) > 0 THEN {"parameters"} ELSE {})
          \cup (IF "requestBody" \in DOMAIN info THEN {"requestBody"} ELSE {})
          \cup (IF "security" \in DOMAIN info THEN {"security"} ELSE {})
  IN [f \in DOMAIN base \cup extra |->
        CASE f = "parameters" -> uniqueParams(<<>>, info.parameters, 1)
          [] f = "requestBody" -> info.requestBody
          [] f = "security" -> info.security
          [] OTHER -> base[f]]

RECURSIVE specPaths(_, _, _)
\* Array.from(this.endpoints.entries()).reduce(...)
specPaths(acc, eps, i) ==
  IF i > Len(eps) THEN acc
  ELSE LET key == eps[i][1]
           p == beforeColon(key[2])
           item == IF MapHas(acc, p) THEN MapGet(acc, p) ELSE <<>>
       IN specPaths(
            MapSet(acc, p,
                   MapSet(item, toLowerCase(key[1]), operationOf(key, eps[i][2]))),
            eps, i + 1)

\* getOpenAPISpec(): the document it returns
getOpenAPISpec(st) ==
  [openapi |-> "3.1.0",
   info |-> [title |-> "API Documentation", version |-> "1.0.0",
             description |->
               "Automatically generated API documentation from proxy traffic"],
   servers |-> <<[url |-> st.targetUrl]>>,
   paths |-> specPaths(<<>>, processRawData(st.endpoints, st.rawDataCache), 1),
   components |-> [securitySchemes |-> st.securitySchemes, schemas |-> <<>>]]

----------------------------------------------------------------------------
(* The exchanges the store is driven with *)

PUsers == <<"/", "u">>
PUser1 == <<"/", "u", "/", "1">>
PUser2 == <<"/", "u", "/", "2">>
PSecure == <<"/", "s">>

RawBodyMarker == VStr("[Raw data stored]")

\* an exchange as a middleware hands it over: a decoded response body
plainExchange(p, m, resBody) ==
  [path |-> p, method |-> m, query |-> <<>>, hasReqHeaders |-> TRUE,
   reqHeaders |-> <<>>, reqBody |-> VNull, reqContentType |-> CtJson,
   hasSecurity |-> FALSE, security |-> <<>>, status |-> 200,
   resBody |-> resBody, resContentType |-> CtJson, resHeaders |-> <<>>,
   rawData |-> NoBuffer]

\* an exchange as the proxy hands it over: raw bytes, decoding deferred
rawExchange(p, m, status, resHeaders, buffer) ==
  [path |-> p, method |-> m, query |-> <<>>, hasReqHeaders |-> TRUE,
   reqHeaders |-> <<>>, reqBody |-> VUndefined, reqContentType |-> CtJson,
   hasSecurity |-> TRUE, security |-> <<>>, status |-> status,
   resBody |-> RawBodyMarker,
   resContentType |-> OrDefault(headerValue(resHeaders, "content-type"), CtJson),
   resHeaders |-> resHeaders, rawData |-> buffer]

JsonHeaders == <<<<"content-type", CtJson>>>>
GzipJsonHeaders == <<<<"content-type", CtJson>>, <<"content-encoding", "gzip">>>>

Exchanges ==
  {plainExchange(PUser1, "get", ValObjA),
   plainExchange(PUser2, "get", ValObjAx),
   [plainExchange(PUsers, "post", ValObjA) EXCEPT
      !.reqBody = ValObjA, !.status = 201,
      !.query = <<<<"q", "1">>>>,
      !.reqHeaders = <<<<"accept", CtJson>>>>],
   [plainExchange(PSecure, "get", VNum(10)) EXCEPT
      !.hasSecurity = TRUE,
      !.security = <<[type |-> "apiKey", name |-> "x-api-key", in |-> "header"]>>],
   [plainExchange(PSecure, "get", VNum(10)) EXCEPT
      !.hasSecurity = TRUE,
      !.security = <<[type |-> "http", scheme |-> "basic"],
                     [type |-> "mutualTLS"]>>],
   rawExchange(PUser1, "get", 200, JsonHeaders, Buf(FALSE, TxtLoose, 15)),
   rawExchange(PUser1, "get", 200, GzipJsonHeaders, Buf(TRUE, TxtObjAx, 29)),
   rawExchange(PUser2, "get", 404, GzipJsonHeaders, Buf(FALSE, TxtPlain, 8))}

\* the target URLs setTargetUrl is called with
TargetUrls == {"http://localhost:3000", "http://localhost:8080"}

\* an exchange on /s whose request carries the security hints given
securedExchange(hints) ==
  [plainExchange(PSecure, "get", VNum(10)) EXCEPT
     !.hasSecurity = TRUE, !.security = hints]

HintApiKey == [type |-> "apiKey", name |-> "x-api-key", in |-> "header"]
HintBasic == [type |-> "http", scheme |-> "basic"]
HintBearer == [type |-> "http", scheme |-> "bearer"]
HintUnsupported == [type |-> "mutualTLS"]

\* the exchanges the security registry is driven with: one hint, a supported
\* hint before an unsupported one, a second definition of a kind, two hints
\* of one kind in one call, the empty hint list the proxy passes, no hints
SecurityExchanges ==
  {securedExchange(<<HintApiKey>>),
   securedExchange(<<HintBasic, HintUnsupported>>),
   securedExchange(<<HintBearer>>),
   securedExchange(<<HintBasic, HintBearer>>),
   securedExchange(<<>>),
   plainExchange(PSecure, "get", VNum(10))}

----------------------------------------------------------------------------
(* The store as a state machine *)

Store ==
  [endpoints |-> endpoints, harEntries |-> harEntries, targetUrl |-> targetUrl,
   schemaCache |-> schemaCache, securitySchemes |-> securitySchemes,
   rawDataCache |-> rawDataCache]

\* new OpenAPIStore(targetUrl): every collection empty
constructed(url) ==
  [endpoints |-> <<>>, harEntries |-> <<>>, targetUrl |-> url,
   schemaCache |-> <<>>, securitySchemes |-> <<>>, rawDataCache |-> <<>>]

\* no second store is followed
ShadowIdle ==
  /\ fresh = constructed("http://localhost:3000")
  /\ cleared = FALSE

\* no request has passed through the middleware
MiddlewareIdle ==
  /\ mwReq = <<>>
  /\ mwPhase = <<>>
  /\ mwLog = <<>>

\* no text is being recovered
RecoveryIdle ==
  /\ unparsed = <<>>
  /\ inferred = NoSchema

\* the proxy has forwarded nothing
ProxyIdle ==
  /\ requests = <<>>
  /\ stage = <<>>
  /\ immediates = <<>>
  /\ harStoreEntries = <<>>
  /\ archivedFor = <<>>

\* the state the constructor leaves
InitStore ==
  /\ endpoints = <<>>
  /\ harEntries = <<>>
  /\ targetUrl = "http://localhost:3000"
  /\ schemaCache = <<>>
  /\ securitySchemes = <<>>
  /\ rawDataCache = <<>>
  /\ nCalls = 0
  /\ appended = <<>>
  /\ called = <<>>

\* recordEndpoint(path, method, request, response) with an exchange of X
RecordFrom(X) ==
  /\ nCalls < MaxCalls
  /\ \E x \in X :
       LET r == recordEndpoint(Store, x)
       IN /\ endpoints' = r.st.endpoints
          /\ harEntries' = r.st.harEntries
          /\ schemaCache' = r.st.schemaCache
          /\ securitySchemes' = r.st.securitySchemes
          /\ rawDataCache' = r.st.rawDataCache
          /\ appended' = IF r.threw THEN appended ELSE Append(appended, x)
          /\ called' = Append(called, x)
  /\ nCalls' = nCalls + 1
  /\ UNCHANGED targetUrl

\* recordEndpoint(path, method, request, response)
RecordEndpoint == RecordFrom(Exchanges)

\* getOpenAPISpec(): processRawData(), then the document is built
GetOpenAPISpec ==
  /\ endpoints' = processRawData(endpoints, rawDataCache)
  /\ rawDataCache' = <<>>
  /\ UNCHANGED <<harEntries, targetUrl, schemaCache, securitySchemes, nCalls,
                 appended, called>>

\* generateHAR(): processHAREntries(), then the archive is returned
GenerateHAR ==
  /\ harEntries' = processHAREntries(harEntries, rawDataCache)
  /\ UNCHANGED <<endpoints, targetUrl, schemaCache, securitySchemes,
                 rawDataCache, nCalls, appended, called>>

\* A clear() that leaves the sampled schemas in place.
ClearKeepsSchemaCache ==
  /\ endpoints' = <<>>
  /\ harEntries' = <<>>
  /\ securitySchemes' = <<>>
  /\ rawDataCache' = <<>>
  /\ nCalls' = 0
  /\ appended' = <<>>
  /\ called' = <<>>
  /\ UNCHANGED <<targetUrl, schemaCache>>

\* clear()
Clear ==
  /\ endpoints' = <<>>
  /\ harEntries' = <<>>
  /\ schemaCache' = <<>>
  /\ securitySchemes' = <<>>
  /\ rawDataCache' = <<>>
  /\ nCalls' = 0
  /\ appended' = <<>>
  /\ called' = <<>>
  /\ UNCHANGED targetUrl

\* setTargetUrl(url)
SetTargetUrl ==
  /\ \E url \in TargetUrls : targetUrl' = url
  /\ UNCHANGED <<endpoints, harEntries, schemaCache, securitySchemes,
                 rawDataCache, nCalls, appended, called>>

----------------------------------------------------------------------------
(* The synthesizer and the merge engine run on bounded inputs *)

SchemaIdle ==
  /\ samples = <<>>
  /\ schemas = <<>>
  /\ merged = NoSchema
  /\ copies = NoSchema
  /\ mergedAB = NoSchema
  /\ mergedBA = NoSchema
  /\ spc = "idle"

InitSchema ==
  /\ PathIdle
  /\ InitStore
  /\ ShadowIdle
  /\ ProxyIdle
  /\ RecoveryIdle
  /\ MiddlewareIdle
  /\ samples \in BoundedSeq(MergeValues, MaxSamples)
                   \cup {<<v>> : v \in SynthValues}
  /\ schemas = <<>>
  /\ merged = NoSchema
  /\ copies = NoSchema
  /\ mergedAB = NoSchema
  /\ mergedBA = NoSchema
  /\ spc = "start"

Synthesize ==
  /\ spc = "start"
  /\ schemas' = [i \in 1..Len(samples) |-> generateJsonSchema(samples[i])]
  /\ spc' = "synthesized"
  /\ UNCHANGED <<samples, merged, copies, mergedAB, mergedBA>>
  /\ UNCHANGED <<pathVars, recoveryVars, middlewareVars, storeVars, shadowVars, proxyVars>>

Merge ==
  /\ spc = "synthesized"
  /\ merged' = deepMergeSchemas(schemas)
  /\ spc' = "merged"
  /\ UNCHANGED <<samples, schemas, copies, mergedAB, mergedBA>>
  /\ UNCHANGED <<pathVars, recoveryVars, middlewareVars, storeVars, shadowVars, proxyVars>>

\* merge N copies of a schema that synthesis or an earlier merge produced
MergeCopies ==
  /\ spc = "merged"
  /\ \E n \in 1..MaxCopies :
       copies' = deepMergeSchemas([i \in 1..n |-> merged])
  /\ spc' = "copied"
  /\ UNCHANGED <<samples, schemas, merged, mergedAB, mergedBA>>
  /\ UNCHANGED <<pathVars, recoveryVars, middlewareVars, storeVars, shadowVars, proxyVars>>

\* A is the merge of the first j schemas, B of the rest; merge them both ways
MergePair ==
  /\ spc = "merged"
  /\ Len(schemas) >= 2
  /\ \E j \in 1..(Len(schemas) - 1) :
       LET A == deepMergeSchemas(SubSeq(schemas, 1, j))
           B == deepMergeSchemas(SubSeq(schemas, j + 1, Len(schemas)))
       IN /\ mergedAB' = deepMergeSchemas(<<A, B>>)
          /\ mergedBA' = deepMergeSchemas(<<B, A>>)
  /\ spc' = "paired"
  /\ UNCHANGED <<samples, schemas, merged, copies>>
  /\ UNCHANGED <<pathVars, recoveryVars, middlewareVars, storeVars, shadowVars, proxyVars>>

NextSchema == Synthesize \/ Merge \/ MergeCopies \/ MergePair

SpecSchema == InitSchema /\ [][NextSchema]_vars

NextPath ==
  \/ TemplatePath /\ UNCHANGED <<schemaVars, recoveryVars, middlewareVars, storeVars, shadowVars, proxyVars>>
  \/ TemplateAgain /\ UNCHANGED <<schemaVars, recoveryVars, middlewareVars, storeVars, shadowVars, proxyVars>>

InitTemplating ==
  /\ InitPath
  /\ SchemaIdle
  /\ InitStore
  /\ ShadowIdle
  /\ ProxyIdle
  /\ RecoveryIdle
  /\ MiddlewareIdle

SpecPath == InitTemplating /\ [][NextPath]_vars

Init ==
  /\ InitStore
  /\ SchemaIdle
  /\ PathIdle
  /\ ShadowIdle
  /\ ProxyIdle
  /\ RecoveryIdle
  /\ MiddlewareIdle

Next ==
  \/ RecordEndpoint /\ UNCHANGED <<schemaVars, pathVars, recoveryVars, middlewareVars, shadowVars, proxyVars>>
  \/ GetOpenAPISpec /\ UNCHANGED <<schemaVars, pathVars, recoveryVars, middlewareVars, shadowVars, proxyVars>>
  \/ GenerateHAR /\ UNCHANGED <<schemaVars, pathVars, recoveryVars, middlewareVars, shadowVars, proxyVars>>
  \/ Clear /\ UNCHANGED <<schemaVars, pathVars, recoveryVars, middlewareVars, shadowVars, proxyVars>>

Spec == Init /\ [][Next]_vars

\* a plain exchange and raw exchanges of one endpoint, one of them compressed
\* and one answered with another status
ArchiveExchanges ==
  {plainExchange(PUser1, "get", ValObjA),
   rawExchange(PUser1, "get", 200, JsonHeaders, Buf(FALSE, TxtLoose, 15)),
   rawExchange(PUser1, "get", 200, GzipJsonHeaders, Buf(TRUE, TxtObjAx, 29)),
   rawExchange(PUser2, "get", 404, GzipJsonHeaders, Buf(FALSE, TxtPlain, 8))}

\* the calls that reach the archive, the base URL changed at any time
NextArchive ==
  \/ RecordFrom(ArchiveExchanges) /\ UNCHANGED <<schemaVars, pathVars, recoveryVars, middlewareVars, shadowVars, proxyVars>>
  \/ GetOpenAPISpec /\ UNCHANGED <<schemaVars, pathVars, recoveryVars, middlewareVars, shadowVars, proxyVars>>
  \/ GenerateHAR /\ UNCHANGED <<schemaVars, pathVars, recoveryVars, middlewareVars, shadowVars, proxyVars>>
  \/ Clear /\ UNCHANGED <<schemaVars, pathVars, recoveryVars, middlewareVars, shadowVars, proxyVars>>
  \/ SetTargetUrl /\ UNCHANGED <<schemaVars, pathVars, recoveryVars, middlewareVars, shadowVars, proxyVars>>

SpecArchive == Init /\ [][NextArchive]_vars

NextSecurity ==
  \/ RecordFrom(SecurityExchanges) /\ UNCHANGED <<schemaVars, pathVars, recoveryVars, middlewareVars, shadowVars, proxyVars>>
  \/ GetOpenAPISpec /\ UNCHANGED <<schemaVars, pathVars, recoveryVars, middlewareVars, shadowVars, proxyVars>>
  \/ GenerateHAR /\ UNCHANGED <<schemaVars, pathVars, recoveryVars, middlewareVars, shadowVars, proxyVars>>
  \/ Clear /\ UNCHANGED <<schemaVars, pathVars, recoveryVars, middlewareVars, shadowVars, proxyVars>>

SpecSecurity == Init /\ [][NextSecurity]_vars

\* the exchanges parameters are collected from: a query parameter named as
\* the path parameter, a query parameter seen twice, a request header named
\* as a query parameter
ParameterExchanges ==
  {[plainExchange(PUser1, "get", VNum(10)) EXCEPT !.query = <<<<"id", "7">>>>],
   [plainExchange(PUser1, "get", VNum(10)) EXCEPT !.query = <<<<"q", "1">>>>],
   [plainExchange(PUser2, "get", VNum(10)) EXCEPT !.query = <<<<"q", "2">>>>],
   [plainExchange(PUser1, "get", VNum(10)) EXCEPT
      !.reqHeaders = <<<<"q", "v">>>>],
   [plainExchange(PUsers, "get", VNum(10)) EXCEPT
      !.reqHeaders = <<<<"accept", CtJson>>>>,
      !.query = <<<<"accept", "1">>>>]}

NextParameters ==
  \/ RecordFrom(ParameterExchanges) /\ UNCHANGED <<schemaVars, pathVars, recoveryVars, middlewareVars, shadowVars, proxyVars>>
  \/ GetOpenAPISpec /\ UNCHANGED <<schemaVars, pathVars, recoveryVars, middlewareVars, shadowVars, proxyVars>>
  \/ Clear /\ UNCHANGED <<schemaVars, pathVars, recoveryVars, middlewareVars, shadowVars, proxyVars>>

SpecParameters == Init /\ [][NextParameters]_vars

BodyNameA == VObj(<<<<"name", VStr("A")>>>>)
BodyNameBAge == VObj(<<<<"name", VStr("B")>>, <<"age", VNum(10)>>>>)

\* a request to /u that carries the body given under the content type given
bodyExchange(m, reqBody, contentType) ==
  [plainExchange(PUsers, m, VNum(10)) EXCEPT
     !.reqBody = reqBody, !.reqContentType = contentType]

PostNameA == bodyExchange("post", BodyNameA, CtJson)
PostNameBAge == bodyExchange("post", BodyNameBAge, CtJson)

\* the exchanges request bodies are collected from: two different bodies
\* under one content type, a body under another content type, no body, and a
\* GET that carries a body
BodyExchanges ==
  {PostNameA,
   PostNameBAge,
   bodyExchange("post", BodyNameBAge, CtText),
   bodyExchange("post", VNull, CtJson),
   bodyExchange("get", BodyNameA, CtJson)}

NextBody ==
  \/ RecordFrom(BodyExchanges) /\ UNCHANGED <<schemaVars, pathVars, recoveryVars, middlewareVars, shadowVars, proxyVars>>
  \/ GetOpenAPISpec /\ UNCHANGED <<schemaVars, pathVars, recoveryVars, middlewareVars, shadowVars, proxyVars>>
  \/ Clear /\ UNCHANGED <<schemaVars, pathVars, recoveryVars, middlewareVars, shadowVars, proxyVars>>

SpecBody == Init /\ [][NextBody]_vars

\* a GET of a user whose response has the status and the headers given
headerExchange(p, status, resHeaders) ==
  [plainExchange(p, "get", ValObjA) EXCEPT
     !.status = status, !.resHeaders = resHeaders]

\* the exchanges response headers are collected from: one header with two
\* values, another header alone, no header at all, and a second status
HeaderExchanges ==
  {headerExchange(PUser1, 200, <<<<"etag", "1">>>>),
   headerExchange(PUser2, 200, <<<<"etag", "2">>>>),
   headerExchange(PUser1, 200, <<<<"x-b", "1">>>>),
   headerExchange(PUser2, 200, <<>>),
   headerExchange(PUser1, 404, <<<<"etag", "3">>>>)}

NextHeaders ==
  \/ RecordFrom(HeaderExchanges) /\ UNCHANGED <<schemaVars, pathVars, recoveryVars, middlewareVars, shadowVars, proxyVars>>
  \/ GetOpenAPISpec /\ UNCHANGED <<schemaVars, pathVars, recoveryVars, middlewareVars, shadowVars, proxyVars>>
  \/ Clear /\ UNCHANGED <<schemaVars, pathVars, recoveryVars, middlewareVars, shadowVars, proxyVars>>

SpecHeaders == Init /\ [][NextHeaders]_vars

\* the exchanges a store is driven with before and after clear(): two
\* response bodies of one slot, a security hint, raw bytes
ClearExchanges ==
  {plainExchange(PUser1, "get", ValObjA),
   plainExchange(PUser2, "get", ValObjAx),
   securedExchange(<<HintApiKey>>),
   rawExchange(PUser1, "get", 200, GzipJsonHeaders, Buf(TRUE, TxtObjAx, 29))}

\* Each operation is applied to the store and to the store constructed at
\* the last clear; clear() itself is answered by a new construction.
NextClear ==
  \/ /\ RecordFrom(ClearExchanges)
     /\ fresh' = recordEndpoint(fresh, called'[Len(called')]).st
     /\ UNCHANGED <<schemaVars, pathVars, recoveryVars, middlewareVars, cleared, proxyVars>>
  \/ /\ GetOpenAPISpec
     /\ fresh' = [fresh EXCEPT
                    !.endpoints = processRawData(fresh.endpoints,
                                                 fresh.rawDataCache),
                    !.rawDataCache = <<>>]
     /\ UNCHANGED <<schemaVars, pathVars, recoveryVars, middlewareVars, cleared, proxyVars>>
  \/ /\ GenerateHAR
     /\ fresh' = [fresh EXCEPT
                    !.harEntries = processHAREntries(fresh.harEntries,
                                                     fresh.rawDataCache)]
     /\ UNCHANGED <<schemaVars, pathVars, recoveryVars, middlewareVars, cleared, proxyVars>>
  \/ /\ Clear
     /\ fresh' = constructed(targetUrl)
     /\ cleared' = TRUE
     /\ UNCHANGED <<schemaVars, pathVars, recoveryVars, middlewareVars, proxyVars>>
  \/ /\ SetTargetUrl
     /\ fresh' = [fresh EXCEPT !.targetUrl = targetUrl']
     /\ UNCHANGED <<schemaVars, pathVars, recoveryVars, middlewareVars, cleared, proxyVars>>

SpecClear == Init /\ [][NextClear]_vars

\* zlib.gunzipSync throws on the payload of the exchange: the response
\* announces gzip and its bytes are no gzip stream
DecodeFails(x) ==
  /\ hasRawData(x.rawData)
  /\ includesGzip(headerValue(x.resHeaders, "content-encoding"))
  /\ ~gunzipSync(x.rawData).ok

\* the raw exchanges payloads are decoded from: sound JSON, a sound gzip
\* stream on another path of the same endpoint, and corrupt gzip on the path
\* of the first and on an endpoint of its own
DecodeExchanges ==
  {rawExchange(PUser1, "get", 200, JsonHeaders, Buf(FALSE, TxtObjA, 7)),
   rawExchange(PUser2, "get", 200, GzipJsonHeaders, Buf(TRUE, TxtObjAx, 29)),
   rawExchange(PUser1, "get", 200, GzipJsonHeaders, Buf(FALSE, TxtPlain, 8)),
   rawExchange(PSecure, "get", 200, GzipJsonHeaders, Buf(FALSE, TxtPlain, 8))}

\* Each operation is applied to the store and to a second store that is
\* given the same calls and reads, the exchanges whose payload cannot be
\* decoded left out.
NextDecode ==
  \/ /\ RecordFrom(DecodeExchanges)
     /\ fresh' = IF DecodeFails(called'[Len(called')]) THEN fresh
                 ELSE recordEndpoint(fresh, called'[Len(called')]).st
     /\ UNCHANGED <<schemaVars, pathVars, recoveryVars, middlewareVars, cleared, proxyVars>>
  \/ /\ GetOpenAPISpec
     /\ fresh' = [fresh EXCEPT
                    !.endpoints = processRawData(fresh.endpoints,
                                                 fresh.rawDataCache),
                    !.rawDataCache = <<>>]
     /\ UNCHANGED <<schemaVars, pathVars, recoveryVars, middlewareVars, cleared, proxyVars>>
  \/ /\ GenerateHAR
     /\ fresh' = [fresh EXCEPT
                    !.harEntries = processHAREntries(fresh.harEntries,
                                                     fresh.rawDataCache)]
     /\ UNCHANGED <<schemaVars, pathVars, recoveryVars, middlewareVars, cleared, proxyVars>>
  \/ /\ Clear
     /\ fresh' = constructed(targetUrl)
     /\ cleared' = TRUE
     /\ UNCHANGED <<schemaVars, pathVars, recoveryVars, middlewareVars, proxyVars>>

SpecDecode == Init /\ [][NextDecode]_vars

\* the exchanges whose response body is the text {id:1,name:'A'}: as raw
\* bytes on two paths of one endpoint, and as a text body on two endpoints
LooseExchanges ==
  {rawExchange(PUser1, "get", 200, JsonHeaders, Buf(FALSE, TxtLoose, 15)),
   rawExchange(PUser2, "get", 200, JsonHeaders, Buf(FALSE, TxtLoose, 15)),
   plainExchange(PSecure, "get", VStr(TxtLoose)),
   plainExchange(PUsers, "post", VStr(TxtLoose))}

NextLoose ==
  \/ RecordFrom(LooseExchanges) /\ UNCHANGED <<schemaVars, pathVars, recoveryVars, middlewareVars, shadowVars, proxyVars>>
  \/ GetOpenAPISpec /\ UNCHANGED <<schemaVars, pathVars, recoveryVars, middlewareVars, shadowVars, proxyVars>>
  \/ GenerateHAR /\ UNCHANGED <<schemaVars, pathVars, recoveryVars, middlewareVars, shadowVars, proxyVars>>
  \/ Clear /\ UNCHANGED <<schemaVars, pathVars, recoveryVars, middlewareVars, shadowVars, proxyVars>>

SpecLoose == Init /\ [][NextLoose]_vars

\* raw exchanges with one concrete path and method and different payloads,
\* one of them compressed, and one on another path of the same endpoint
SnapshotExchanges ==
  {rawExchange(PUser1, "get", 200, JsonHeaders, Buf(FALSE, TxtObjA, 7)),
   rawExchange(PUser1, "get", 200, JsonHeaders, Buf(FALSE, TxtLoose, 15)),
   rawExchange(PUser1, "get", 200, GzipJsonHeaders, Buf(TRUE, TxtObjAx, 29)),
   rawExchange(PUser2, "get", 200, JsonHeaders, Buf(FALSE, TxtObjAx, 9))}

NextSnapshot ==
  \/ RecordFrom(SnapshotExchanges) /\ UNCHANGED <<schemaVars, pathVars, recoveryVars, middlewareVars, shadowVars, proxyVars>>
  \/ GenerateHAR /\ UNCHANGED <<schemaVars, pathVars, recoveryVars, middlewareVars, shadowVars, proxyVars>>
  \/ Clear /\ UNCHANGED <<schemaVars, pathVars, recoveryVars, middlewareVars, shadowVars, proxyVars>>

SpecSnapshot == Init /\ [][NextSnapshot]_vars

\* raw exchanges whose schema is deferred: one concrete path and method with
\* two statuses, and two concrete paths of one templated endpoint
DeferredExchanges ==
  {rawExchange(PUser1, "get", 200, JsonHeaders, Buf(FALSE, TxtObjA, 7)),
   rawExchange(PUser1, "get", 404, JsonHeaders, Buf(FALSE, TxtObjAx, 9)),
   rawExchange(PUser2, "get", 200, JsonHeaders, Buf(FALSE, TxtLoose, 15)),
   rawExchange(PUsers, "post", 201, JsonHeaders, Buf(FALSE, TxtObjA, 7))}

NextDeferred ==
  \/ RecordFrom(DeferredExchanges) /\ UNCHANGED <<schemaVars, pathVars, recoveryVars, middlewareVars, shadowVars, proxyVars>>
  \/ GetOpenAPISpec /\ UNCHANGED <<schemaVars, pathVars, recoveryVars, middlewareVars, shadowVars, proxyVars>>
  \/ Clear /\ UNCHANGED <<schemaVars, pathVars, recoveryVars, middlewareVars, shadowVars, proxyVars>>

SpecDeferred == Init /\ [][NextDeferred]_vars

----------------------------------------------------------------------------
(* The harRecorder middleware *)

\* the requests that pass through the middleware in one run of the model
MaxRequests == 2

\* what fails for a request: nothing, reading the clone of the request
\* body, c.req.header(), the downstream handler, new URL(c.req.url), or
\* reading the clone of the response body
Faults == {"none", "reqClone", "header", "next", "url", "resClone"}

\* the middlewares that record into the store: harRecorder, the
\* apiDocGenerator that hands over the text of the response, and the
\* apiDocGenerator that hands over no bodies
Recorders == {"harRecorder", "apiDocGenerator", "apiDocGeneratorNoBodies"}

\* the requests of the model: every fault on a GET through harRecorder, the
\* faults before the downstream handler on a POST, a PUT, the downstream and
\* response faults through apiDocGenerator, a response that is no strict
\* JSON through harRecorder, the downstream and URL faults through the
\* apiDocGenerator without bodies
MwRequests ==
  {r \in [recorder : Recorders, method : {"GET", "POST", "PUT"},
          fault : Faults, resText : {TxtObjA, TxtLoose},
          requestBody : {VUndefined}] :
     /\ r.resText = TxtLoose =>
          (r.fault = "none" /\ r.method = "GET" /\ r.recorder = "harRecorder")
     /\ r.method = "PUT" => (r.fault = "none" /\ r.recorder = "harRecorder")
     /\ r.method = "POST" =>
          (r.fault \in {"none", "reqClone", "header"}
             /\ r.recorder = "harRecorder")
     /\ r.recorder = "apiDocGenerator" =>
          r.fault \in {"none", "next", "resClone"}
     /\ r.recorder = "apiDocGeneratorNoBodies" =>
          /\ r.fault \in {"none", "next", "url"}
          /\ r.method = "GET"
          /\ r.resText = TxtObjA}

\* JSON.parse(text), the text kept when parsing fails
parsedOrText(text) ==
  IF JSONparse(text).ok THEN JSONparse(text).value ELSE VStr(text)

\* harRecorder waits for the text of the request body before it calls
\* next(): the method carries a body and c.req.header('content-type') did
\* not throw
readsRequestBody(r) ==
  /\ r.recorder = "harRecorder"
  /\ r.method \in {"POST", "PUT", "PATCH"}
  /\ r.fault # "header"

\* the request body captured before the downstream handler runs; an error
\* while capturing leaves it undefined
capturedRequestBody(r) ==
  IF r.method \in {"POST", "PUT", "PATCH"}
    THEN IF r.fault \in {"header", "reqClone"} THEN VUndefined
         ELSE parsedOrText(TxtObjA)
    ELSE VUndefined

\* the response body extracted after the downstream handler returned; an
\* error while extracting leaves the initial {}
extractedResponseBody(r) ==
  IF r.fault = "resClone" THEN VObj(<<>>) ELSE parsedOrText(r.resText)

\* the arguments of store.recordEndpoint: harRecorder hands over the bodies
\* it captured, apiDocGenerator no request body and the response text as it
\* is or no response body either
mwExchange(r) ==
  [path |-> IF r.method = "GET" THEN PUser1 ELSE PUsers,
   method |-> toLowerCase(r.method), query |-> <<>>, hasReqHeaders |-> TRUE,
   reqHeaders |-> IF r.method = "GET" THEN <<>> ELSE JsonHeaders,
   reqBody |-> IF r.recorder = "harRecorder" THEN r.requestBody
               ELSE VUndefined,
   reqContentType |-> CtJson,
   hasSecurity |-> FALSE, security |-> <<>>, status |-> 200,
   resBody |-> IF r.recorder = "harRecorder" THEN extractedResponseBody(r)
               ELSE IF r.recorder = "apiDocGenerator" THEN VStr(r.resText)
               ELSE VUndefined,
   resContentType |-> CtJson,
   resHeaders |-> JsonHeaders, rawData |-> NoBuffer]

\* the run ends: how it ended, whether the archive grew during it and
\* whether store.recordEndpoint threw
finished(r, outcome, grew, raised) ==
  Append(mwLog, [request |-> r, outcome |-> outcome, stored |-> grew,
                 raised |-> raised])

\* the runs of a middleware that wait at the given point
RunsAt(phase) == {id \in 1..Len(mwPhase) : mwPhase[id] = phase}

\* a request enters a middleware while others may be in flight: harRecorder
\* waits for the text of a request body, and otherwise, as apiDocGenerator
\* always, calls next() in the same turn
EnterMiddleware ==
  /\ Len(mwReq) < MaxRequests
  /\ \E r \in MwRequests :
       /\ mwReq' = Append(mwReq, r)
       /\ mwPhase' = Append(mwPhase, IF readsRequestBody(r) THEN "body"
                                     ELSE "next")
  /\ UNCHANGED <<mwLog, storeVars>>

\* the text of the request body has arrived or failed to: the body is
\* captured and next() is called
CaptureRequestBody ==
  /\ \E id \in RunsAt("body") :
       /\ mwReq' = [mwReq EXCEPT
                      ![id].requestBody = capturedRequestBody(mwReq[id])]
       /\ mwPhase' = [mwPhase EXCEPT ![id] = "next"]
  /\ UNCHANGED <<mwLog, storeVars>>

\* store.recordEndpoint(...) inside the try of a middleware, for the run
\* id: what the store throws is logged and the middleware resolves
StoreRecordEndpoint(id) ==
  LET x == mwExchange(mwReq[id])
      r == recordEndpoint(Store, x)
  IN /\ endpoints' = r.st.endpoints
     /\ harEntries' = r.st.harEntries
     /\ schemaCache' = r.st.schemaCache
     /\ securitySchemes' = r.st.securitySchemes
     /\ rawDataCache' = r.st.rawDataCache
     /\ appended' = IF r.threw THEN appended ELSE Append(appended, x)
     /\ called' = Append(called, x)
     /\ nCalls' = nCalls + 1
     /\ mwLog' = finished(mwReq[id], "resolved",
                          Len(r.st.harEntries) > Len(harEntries), r.threw)
     /\ UNCHANGED targetUrl

\* A call of the downstream handler whose error is swallowed.
CallNextSwallows ==
  /\ \E id \in RunsAt("next") :
       IF mwReq[id].recorder = "apiDocGeneratorNoBodies"
         THEN /\ mwPhase' = [mwPhase EXCEPT ![id] = "done"]
              /\ IF mwReq[id].fault \in {"url", "header"}
                   THEN /\ mwLog' = finished(mwReq[id], "rejected", FALSE,
                                             FALSE)
                        /\ UNCHANGED storeVars
                   ELSE StoreRecordEndpoint(id)
       ELSE IF mwReq[id].fault \in {"url", "header"}
         THEN /\ mwPhase' = [mwPhase EXCEPT ![id] = "done"]
              /\ mwLog' = finished(mwReq[id], "resolved", FALSE, FALSE)
              /\ UNCHANGED storeVars
       ELSE /\ mwPhase' = [mwPhase EXCEPT ![id] = "response"]
            /\ UNCHANGED <<mwLog, storeVars>>
  /\ UNCHANGED mwReq

\* await next() settles: an error of the downstream handler is logged and
\* rethrown. Otherwise harRecorder and the apiDocGenerator that reads the
\* response go on until they wait for the text of the response, an error of
\* new URL(c.req.url) or c.req.header() on the way being logged, and the
\* middleware resolves; the apiDocGenerator without bodies builds the URL
\* and the headers outside its try, where an error escapes, and records in
\* the same turn.
CallNext ==
  /\ \E id \in RunsAt("next") :
       IF mwReq[id].fault = "next"
         THEN /\ mwPhase' = [mwPhase EXCEPT ![id] = "done"]
              /\ mwLog' = finished(mwReq[id], "rejected", FALSE, FALSE)
              /\ UNCHANGED storeVars
       ELSE IF mwReq[id].recorder = "apiDocGeneratorNoBodies"
         THEN /\ mwPhase' = [mwPhase EXCEPT ![id] = "done"]
              /\ IF mwReq[id].fault \in {"url", "header"}
                   THEN /\ mwLog' = finished(mwReq[id], "rejected", FALSE,
                                             FALSE)
                        /\ UNCHANGED storeVars
                   ELSE StoreRecordEndpoint(id)
       ELSE IF mwReq[id].fault \in {"url", "header"}
         THEN /\ mwPhase' = [mwPhase EXCEPT ![id] = "done"]
              /\ mwLog' = finished(mwReq[id], "resolved", FALSE, FALSE)
              /\ UNCHANGED storeVars
       ELSE /\ mwPhase' = [mwPhase EXCEPT ![id] = "response"]
            /\ UNCHANGED <<mwLog, storeVars>>
  /\ UNCHANGED mwReq

\* the text of the response has arrived or failed to: the exchange is handed
\* to store.recordEndpoint, and the middleware resolves. A response that
\* cannot be read leaves harRecorder with the body {} and keeps
\* apiDocGenerator from recording.
RecordExchange ==
  /\ \E id \in RunsAt("response") :
       /\ mwPhase' = [mwPhase EXCEPT ![id] = "done"]
       /\ IF mwReq[id].recorder = "apiDocGenerator"
             /\ mwReq[id].fault = "resClone"
            THEN /\ mwLog' = finished(mwReq[id], "resolved", FALSE, FALSE)
                 /\ UNCHANGED storeVars
            ELSE StoreRecordEndpoint(id)
  /\ UNCHANGED mwReq

NextMiddleware ==
  \/ EnterMiddleware /\ UNCHANGED <<schemaVars, pathVars, recoveryVars, shadowVars, proxyVars>>
  \/ CaptureRequestBody /\ UNCHANGED <<schemaVars, pathVars, recoveryVars, shadowVars, proxyVars>>
  \/ CallNext /\ UNCHANGED <<schemaVars, pathVars, recoveryVars, shadowVars, proxyVars>>
  \/ RecordExchange /\ UNCHANGED <<schemaVars, pathVars, recoveryVars, shadowVars, proxyVars>>

\* the store handed to the middleware: new OpenAPIStore(targetUrl), nothing
\* recorded; the target URL is the default or a string that is no URL
InitMiddleware ==
  /\ endpoints = <<>>
  /\ harEntries = <<>>
  /\ targetUrl \in {"http://localhost:3000", "not a url"}
  /\ schemaCache = <<>>
  /\ securitySchemes = <<>>
  /\ rawDataCache = <<>>
  /\ nCalls = 0
  /\ appended = <<>>
  /\ called = <<>>
  /\ SchemaIdle
  /\ PathIdle
  /\ ShadowIdle
  /\ ProxyIdle
  /\ RecoveryIdle
  /\ MiddlewareIdle

SpecMiddleware == InitMiddleware /\ [][NextMiddleware]_vars

\* the characters the texts to recover are written with
TextChars == {"{", "}", "[", "]", " ", ":", "a", "1", "'", "$"}

InitRecovery ==
  /\ InitStore
  /\ SchemaIdle
  /\ PathIdle
  /\ ShadowIdle
  /\ ProxyIdle
  /\ MiddlewareIdle
  /\ unparsed \in BoundedSeq(TextChars, MaxTextLen)
  /\ inferred = NoSchema

\* generateSchemaFromStructure(text)
InferStructure ==
  /\ inferred = NoSchema
  /\ inferred' = generateSchemaFromChars(unparsed)
  /\ UNCHANGED <<unparsed, schemaVars, pathVars, storeVars, shadowVars,
                 proxyVars, middlewareVars>>

NextRecovery == InferStructure

SpecRecovery == InitRecovery /\ [][NextRecovery]_vars

----------------------------------------------------------------------------
(* Proxy server: the proxyRes handler, its continuation and the docs routes *)

CtJavascript == "application/javascript"
CtHtml == "text/html"

HarStorePlaceholder == "[Response content stored]"
HarStoreCompressed == "[Compressed content]"

\* path.endsWith(suffix), on paths as sequences of characters
endsWith(p, suffix) ==
  /\ Len(p) >= Len(suffix)
  /\ SubSeq(p, Len(p) - Len(suffix) + 1, Len(p)) = suffix

\* the file suffixes the continuation skips
AssetSuffixes ==
  {<<".", "j", "s">>, <<".", "c", "s", "s">>, <<".", "h", "t", "m", "l">>,
   <<".", "h", "t", "m">>, <<".", "w", "o", "f", "f">>,
   <<".", "w", "o", "f", "f", "2">>, <<".", "t", "t", "f">>,
   <<".", "e", "o", "t">>, <<".", "m", "a", "p">>}

\* contentType.includes('javascript') || 'css' || 'html' || 'font/'
includesAssetType(ct) == ct \in {CtJavascript, CtHtml}

\* the two early returns of the continuation
skippedAsAsset(req) ==
  \/ \E suffix \in AssetSuffixes : endsWith(req.path, suffix)
  \/ includesAssetType(headerValue(req.resHeaders, "content-type"))

\* requestHeaders['authorization']?.startsWith(prefix)
startsWithBearer(v) == v = "Bearer t"
startsWithBasic(v) == v = "Basic dTpw"

\* the security hints the continuation reads off the request headers
securityHints(reqHeaders) ==
  (IF headerValue(reqHeaders, "x-api-key") # ""
     THEN <<[type |-> "apiKey", name |-> "x-api-key", in |-> "header"]>>
     ELSE <<>>)
  \o (IF startsWithBearer(headerValue(reqHeaders, "authorization"))
        THEN <<[type |-> "http", scheme |-> "bearer"]>> ELSE <<>>)
  \o (IF startsWithBasic(headerValue(reqHeaders, "authorization"))
        THEN <<[type |-> "http", scheme |-> "basic"]>> ELSE <<>>)

\* the request body the continuation takes: req.body for POST, PUT, PATCH
proxiedBody(req) ==
  IF req.method \in {"POST", "PUT", "PATCH"} THEN req.body ELSE VUndefined

\* the arguments of openApiStore.recordEndpoint in the continuation
proxiedExchange(req) ==
  [path |-> req.path, method |-> toLowerCase(req.method),
   query |-> req.query, hasReqHeaders |-> TRUE, reqHeaders |-> req.reqHeaders,
   reqBody |-> proxiedBody(req),
   reqContentType |->
     OrDefault(headerValue(req.reqHeaders, "content-type"), CtJson),
   hasSecurity |-> TRUE, security |-> securityHints(req.reqHeaders),
   status |-> req.status, resBody |-> RawBodyMarker,
   resContentType |->
     OrDefault(headerValue(req.resHeaders, "content-type"), CtJson),
   resHeaders |-> req.resHeaders, rawData |-> req.buffer]

\* Object.entries(requestHeaders).filter(([key]) =>
\*   key.toLowerCase() !== 'content-length')
withoutContentLength(headers) ==
  LET Kept(h) == toLowerCase(h[1]) # "content-length"
  IN SelectSeq(headers, Kept)

\* the entry the continuation hands to harStore.addEntry
proxyHarEntry(target, req) ==
  [request |->
     [method |-> req.method,
      url |-> [origin |-> target, pathname |-> req.path, search |-> req.query],
      httpVersion |-> "HTTP/1.1",
      headers |-> withoutContentLength(req.reqHeaders),
      queryString |-> req.query,
      postData |-> IF Truthy(proxiedBody(req))
                     THEN <<[mimeType |->
                               OrDefault(headerValue(req.reqHeaders,
                                                     "content-type"), CtJson),
                             text |-> IF proxiedBody(req).k = "string"
                                        THEN proxiedBody(req).s
                                        ELSE JSONstringify(proxiedBody(req))]>>
                     ELSE <<>>],
   response |->
     [status |-> req.status,
      statusText |-> IF req.status = 200 THEN "OK" ELSE "Error",
      httpVersion |-> "HTTP/1.1",
      headers |-> req.resHeaders,
      content |-> [size |-> req.buffer.len,
                   mimeType |->
                     OrDefault(headerValue(req.resHeaders, "content-type"),
                               "application/octet-stream"),
                   text |-> HarStorePlaceholder]],
   rawResponseBuffer |-> <<req.buffer>>]

\* the body of the loop of HARStore.processRawBuffers for one entry
processRawBuffer(entry) ==
  LET buffer == entry.rawResponseBuffer[1]
      contentType == entry.response.content.mimeType
      contentEncoding == headerValue(entry.response.headers, "content-encoding")
      text == toStringUtf8(buffer)
      resolved ==
        IF contentEncoding # ""
          THEN IF toLowerCase(contentEncoding) = "gzip"
                 THEN IF gunzipSync(buffer).ok THEN gunzipSync(buffer).text
                      ELSE HarStoreCompressed
                 ELSE "[" \o contentEncoding \o " compressed content]"
          ELSE IF includesJson(contentType) /\ JSONparse(text).ok
                 THEN JSONstringify(JSONparse(text).value)
                 ELSE text
  IN  IF /\ entry.rawResponseBuffer # <<>>
         /\ entry.response.content.text = HarStorePlaceholder
        THEN [entry EXCEPT !.response.content.text = resolved,
                           !.rawResponseBuffer = <<>>]
        ELSE entry

processRawBuffers(entries) ==
  [i \in 1..Len(entries) |-> processRawBuffer(entries[i])]

\* a request as the proxy sees it, with the response its target gives
proxiedRequest(m, p, reqHeaders, body, status, resHeaders, buffer) ==
  [method |-> m, path |-> p, query |-> <<>>, reqHeaders |-> reqHeaders,
   body |-> body, status |-> status, resHeaders |-> resHeaders,
   buffer |-> buffer]

PAppJs == <<"/", "a", ".", "j", "s">>

\* the traffic the proxy is driven with: a JSON read, a gzip-encoded answer
\* to an authenticated POST, a script and an HTML page
ProxiedRequests ==
  {proxiedRequest("GET", PUser1, <<>>, VUndefined, 200, JsonHeaders,
                  Buf(FALSE, TxtObjA, 7)),
   proxiedRequest("POST", PUsers,
                  <<<<"x-api-key", "k">>, <<"content-length", "7">>>>,
                  ValObjA, 201, GzipJsonHeaders, Buf(TRUE, TxtObjAx, 29)),
   proxiedRequest("POST", PUsers,
                  <<<<"content-type", CtText>>, <<"content-length", "5">>>>,
                  VStr("hello"), 200,
                  <<<<"content-type", CtJson>>, <<"content-encoding", "GZIP">>>>,
                  Buf(TRUE, TxtObjAx, 29)),
   proxiedRequest("GET", PAppJs, <<>>, VUndefined, 200,
                  <<<<"content-type", CtJavascript>>>>,
                  Buf(FALSE, TxtPlain, 8)),
   proxiedRequest("GET", PSecure, <<>>, VUndefined, 200,
                  <<<<"content-type", CtHtml>>>>, Buf(FALSE, TxtPlain, 8))}

\* a request arrives and is forwarded to the target
ProxyRequest ==
  /\ Len(requests) < MaxProxied
  /\ \E req \in ProxiedRequests :
       /\ requests' = Append(requests, req)
       /\ stage' = Append(stage, "forwarded")
  /\ UNCHANGED <<immediates, harStoreEntries, archivedFor, storeVars>>

\* proxyRes 'end': the response is ended to the caller, then the
\* continuation is queued with setImmediate
ProxyResEnd ==
  /\ \E id \in 1..Len(requests) :
       /\ stage[id] = "forwarded"
       /\ stage' = [stage EXCEPT ![id] = "ended"]
       /\ immediates' = Append(immediates, id)
  /\ UNCHANGED <<requests, harStoreEntries, archivedFor, storeVars>>

\* the event loop takes the oldest callback off the immediate queue
TakeImmediate ==
  /\ immediates # <<>>
  /\ immediates' = Tail(immediates)

\* A continuation that adds the archive entry and leaves the registry alone.
RunImmediateArchiveOnly ==
  /\ TakeImmediate
  /\ IF skippedAsAsset(requests[Head(immediates)])
       THEN /\ stage' = [stage EXCEPT ![Head(immediates)] = "skipped"]
            /\ UNCHANGED <<harStoreEntries, archivedFor>>
       ELSE /\ stage' = [stage EXCEPT ![Head(immediates)] = "recorded"]
            /\ harStoreEntries' =
                 Append(harStoreEntries,
                        proxyHarEntry(targetUrl, requests[Head(immediates)]))
            /\ archivedFor' = Append(archivedFor, Head(immediates))
  /\ UNCHANGED <<requests, storeVars>>

\* the event loop runs the oldest queued continuation: a web asset is
\* skipped, any other exchange is added to the archive and then recorded
RunImmediate ==
  /\ TakeImmediate
  /\ IF skippedAsAsset(requests[Head(immediates)])
       THEN /\ stage' = [stage EXCEPT ![Head(immediates)] = "skipped"]
            /\ UNCHANGED <<harStoreEntries, archivedFor, storeVars>>
       ELSE \E r \in {recordEndpoint(
                         Store, proxiedExchange(requests[Head(immediates)]))} :
              /\ stage' = [stage EXCEPT ![Head(immediates)] = "recorded"]
              /\ harStoreEntries' =
                   Append(harStoreEntries,
                          proxyHarEntry(targetUrl, requests[Head(immediates)]))
              /\ archivedFor' = Append(archivedFor, Head(immediates))
              /\ endpoints' = r.st.endpoints
              /\ harEntries' = r.st.harEntries
              /\ schemaCache' = r.st.schemaCache
              /\ securitySchemes' = r.st.securitySchemes
              /\ rawDataCache' = r.st.rawDataCache
              /\ appended' =
                   IF r.threw THEN appended
                   ELSE Append(appended,
                               proxiedExchange(requests[Head(immediates)]))
              /\ called' =
                   Append(called, proxiedExchange(requests[Head(immediates)]))
              /\ nCalls' = nCalls + 1
              /\ UNCHANGED targetUrl
  /\ UNCHANGED requests

\* GET /har of the docs server: harStore.getHAR()
GetHar ==
  /\ harStoreEntries' = processRawBuffers(harStoreEntries)
  /\ UNCHANGED <<requests, stage, immediates, archivedFor, storeVars>>

\* harStore.clear(): the archive of the proxy server is emptied
HarStoreClear ==
  /\ harStoreEntries' = <<>>
  /\ archivedFor' = <<>>
  /\ UNCHANGED <<requests, stage, immediates, storeVars>>

\* GET /openapi.json of the docs server: openApiStore.getOpenAPISpec()
GetOpenApiJson ==
  /\ GetOpenAPISpec
  /\ UNCHANGED proxyVars

NextProxy ==
  \/ ProxyRequest /\ UNCHANGED <<schemaVars, pathVars, recoveryVars, middlewareVars, shadowVars>>
  \/ ProxyResEnd /\ UNCHANGED <<schemaVars, pathVars, recoveryVars, middlewareVars, shadowVars>>
  \/ RunImmediate /\ UNCHANGED <<schemaVars, pathVars, recoveryVars, middlewareVars, shadowVars>>
  \/ GetHar /\ UNCHANGED <<schemaVars, pathVars, recoveryVars, middlewareVars, shadowVars>>
  \/ GetOpenApiJson /\ UNCHANGED <<schemaVars, pathVars, recoveryVars, middlewareVars, shadowVars>>
  \/ HarStoreClear /\ UNCHANGED <<schemaVars, pathVars, recoveryVars, middlewareVars, shadowVars>>

SpecProxy == Init /\ [][NextProxy]_vars

\* Node runs every callback queued with setImmediate in the check phase of
\* the event loop: the oldest queued continuation is not left on the queue
\* forever. Taking a callback off the queue is the first step of RunImmediate
\* and of no other action.
SpecProxyLive == SpecProxy /\ WF_immediates(TakeImmediate)

----------------------------------------------------------------------------
(* Properties of the traffic archive *)

\* the entries generateHAR() returns when it is called in the current state
ArchiveEntries == generateHAR(harEntries, rawDataCache).log.entries

\* C1: the number of entries an archive read returns equals the number of
\* recordEndpoint calls made since the last clear (or since construction),
\* however many reads happened in between.
C1_ArchiveLengthIsCallCount == Len(ArchiveEntries) = nCalls

\* C2: an entry appended with raw bytes is decoded by the first archive read
\* after the append and stays decoded: whenever the archive is read, every
\* entry recorded with raw bytes carries its decoded text instead of the
\* placeholder, and a second read returns the same entries again.
C2_RawEntriesDecodedOnRead ==
  /\ \A i \in 1..Len(ArchiveEntries) :
       hasRawData(appended[i].rawData) =>
         ArchiveEntries[i].response.content.text # HarPlaceholder
  /\ processHAREntries(ArchiveEntries, rawDataCache) = ArchiveEntries

\* C3: every exchange handed to recordEndpoint leaves exactly one archive
\* entry, also when the call fails part-way: no call returns or raises
\* without the archive having grown by one.
C3_EveryCallAppendsOneEntry ==
  [][nCalls' = nCalls + 1 => Len(harEntries') = Len(harEntries) + 1]_vars

----------------------------------------------------------------------------
(* Properties of the endpoint registry and of path templating *)

\* a path cut at its slashes
RECURSIVE Segments(_)
Segments(p) ==
  IF Len(p) = 0 THEN <<<<>>>>
  ELSE LET rest == Segments(Tail(p))
       IN IF Head(p) = "/" THEN <<<<>>>> \o rest
          ELSE <<<<Head(p)>> \o Head(rest)>> \o Tail(rest)

IsNumericSegment(seg) ==
  Len(seg) > 0 /\ \A i \in 1..Len(seg) : seg[i] \in Digits

\* two paths that differ at most in the values of purely numeric segments
DifferOnlyInNumeric(p, q) ==
  LET sp == Segments(p)
      sq == Segments(q)
  IN /\ Len(sp) = Len(sq)
     /\ \A i \in 1..Len(sp) :
          \/ sp[i] = sq[i]
          \/ IsNumericSegment(sp[i]) /\ IsNumericSegment(sq[i])

IdSegment == <<"{", "i", "d", "}">>

\* the templated path t stands for the concrete path p
Covers(t, p) ==
  LET st == Segments(t)
      sp == Segments(p)
  IN /\ Len(st) = Len(sp)
     /\ \A i \in 1..Len(st) :
          \/ st[i] = sp[i] /\ ~IsNumericSegment(sp[i])
          \/ st[i] = IdSegment /\ IsNumericSegment(sp[i])

\* the paths object of the document getOpenAPISpec() returns in this state
DocPaths == getOpenAPISpec(Store).paths

\* C4: for any two recorded exchanges with the same method whose paths differ
\* only in the value of a purely numeric segment, the store holds exactly one
\* endpoint record and the document shows exactly one path, the {id} form,
\* for them; endpoint keys are unique per (method, templated path).
C4_OneRecordPerNumericFamily ==
  LET doc == DocPaths
  IN /\ \A a, b \in 1..Len(endpoints) :
          endpoints[a][1] = endpoints[b][1] => a = b
     /\ \A i, j \in 1..Len(appended) :
          (/\ appended[i].method = appended[j].method
           /\ DifferOnlyInNumeric(appended[i].path, appended[j].path))
          => /\ Cardinality({a \in 1..Len(endpoints) :
                               /\ endpoints[a][1][1] = appended[i].method
                               /\ \/ Covers(endpoints[a][1][2], appended[i].path)
                                  \/ Covers(endpoints[a][1][2], appended[j].path)})
                  = 1
             /\ Cardinality({a \in 1..Len(doc) :
                               /\ MapHas(doc[a][2], appended[i].method)
                               /\ \/ Covers(doc[a][1], appended[i].path)
                                  \/ Covers(doc[a][1], appended[j].path)})
                  = 1

\* two exchanges with different numeric segments were recorded and share the
\* one record filed under the {id} form
C4_Witness ==
  \E i, j \in 1..Len(appended) :
    /\ appended[i].path # appended[j].path
    /\ appended[i].method = appended[j].method
    /\ DifferOnlyInNumeric(appended[i].path, appended[j].path)
    /\ MapHas(endpoints, <<appended[i].method, <<"/", "u", "/">> \o IdSegment>>)
    /\ MapHas(DocPaths, <<"/", "u", "/">> \o IdSegment)

\* C10: path templating is idempotent: templating the templated form of a
\* path returns it unchanged, so an exchange recorded under the templated
\* path is filed under the key of the concrete path it came from.
C10_TemplatingIdempotent == ppc = "again" => key2 = key1

\* a path that templating rewrote was templated a second time
C10_Witness == ppc = "again" /\ key1[2] # path /\ key2 = key1

----------------------------------------------------------------------------
(* Properties of the synthesizer and of the merge engine *)

\* C5: the schema obtained by synthesizing each sample and merging the
\* synthesized schemas accepts every one of the samples, also when a property
\* was merged into a oneOf node by an earlier pairwise step and is then
\* merged with a further schema.  (Arrays are held to their first member
\* only, so that nothing here rests on how arrays of objects are sampled.)
C5_MergedAcceptsEverySample ==
  merged # NoSchema =>
    \A i \in 1..Len(samples) : AcceptsSampled(merged, samples[i])

\* the permutations of 1..n
Perms(n) == {f \in [1..n -> 1..n] : \A a, b \in 1..n : f[a] = f[b] => a = b}

\* the response slot an exchange is recorded under
SlotOf(x) ==
  schemaKey(endpointKey(x.method, x.path), x.status,
            OrDefault(x.resContentType, CtJson))

\* the synthesized samples of the exchanges recorded under a slot, in order
SlotSamples(sKey) ==
  LET InSlot(x) == SlotOf(x) = sKey
      recorded == SelectSeq(appended, InSlot)
  IN [k \in 1..Len(recorded) |-> generateJsonSchema(recorded[k].resBody)]

\* the response schema the document shows for a slot
ShownSchema(sKey) ==
  MapGet(MapGet(MapGet(MapGet(DocPaths, beforeColon(sKey[1][2])),
                       toLowerCase(sKey[1][1])).responses,
                sKey[2]).content,
         sKey[3]).schema

\* C6: for a fixed (endpoint, status, content type) the response schema the
\* document shows after k non-raw recordings is the merge over all k
\* synthesized samples, and it is the same, up to the order of oneOf
\* alternatives, for every order in which the k exchanges could have been
\* recorded.
C6_ResponseSchemaOrderIndependent ==
  (\A i \in 1..Len(appended) : ~hasRawData(appended[i].rawData)) =>
    \A i \in 1..Len(appended) :
      /\ ShownSchema(SlotOf(appended[i]))
           = deepMergeSchemas(SlotSamples(SlotOf(appended[i])))
      /\ \A f \in Perms(Len(SlotSamples(SlotOf(appended[i])))) :
           Canon(deepMergeSchemas(
                   [k \in 1..Len(SlotSamples(SlotOf(appended[i]))) |->
                      SlotSamples(SlotOf(appended[i]))[f[k]]]))
             = Canon(ShownSchema(SlotOf(appended[i])))

\* C7 as stated: the schema generateJsonSchema returns for a value is
\* satisfied by the value, and of an array whose members are all objects
\* every member satisfies the items schema.
C7_SchemaAcceptsEveryMember ==
  \A i \in 1..Len(schemas) : Accepts(schemas[i], samples[i])

\* C7: the schema generateJsonSchema returns for a value is satisfied by the
\* value, where of an array whose members are all objects the first member
\* satisfies the items schema (the later members were not looked at).
C7_SchemaAcceptsSample ==
  \A i \in 1..Len(schemas) : AcceptsSampled(schemas[i], samples[i])

\* an array of two objects was synthesized whose second member does not fit
\* the items schema taken from the first
C7_Witness ==
  \E i \in 1..Len(schemas) :
    /\ isArray(samples[i])
    /\ Len(samples[i].elems) >= 2
    /\ \A k \in 1..Len(samples[i].elems) : isPlainObject(samples[i].elems[k])
    /\ ~Accepts(schemas[i], samples[i])
    /\ AcceptsSampled(schemas[i], samples[i])

\* a schema without its examples and descriptions; an object schema without
\* properties is taken as one with none
RECURSIVE Shape(_)
Shape(s) ==
  [type |-> s.type,
   properties |-> IF "properties" \in DOMAIN s
                    THEN {<<s.properties[i][1], Shape(s.properties[i][2])>> :
                            i \in 1..Len(s.properties)}
                    ELSE {},
   items |-> IF "items" \in DOMAIN s THEN {Shape(s.items)} ELSE {},
   oneOf |-> IF "oneOf" \in DOMAIN s
               THEN {Shape(s.oneOf[i]) : i \in 1..Len(s.oneOf)}
               ELSE {}]

\* C8: merge is idempotent: deepMergeSchemas of N >= 1 copies of a schema
\* (an object, a primitive, an array, or a oneOf node an earlier merge
\* produced) is structurally equal to deepMergeSchemas of the schema alone.
C8_MergeIdempotent ==
  spc = "copied" => Shape(copies) = Shape(deepMergeSchemas(<<merged>>))

\* C9: merge is commutative up to order: deepMergeSchemas([A, B]) and
\* deepMergeSchemas([B, A]) are structurally equal when the alternatives of
\* every oneOf, at any nesting level, are compared as sets.
C9_MergeCommutative == spc = "paired" => Canon(mergedAB) = Canon(mergedBA)

----------------------------------------------------------------------------
(* Properties of the security registry *)

\* C11: a recordEndpoint call whose hints include one of an unsupported kind
\* raises and performs no partial update: after the raise the endpoint
\* registry, the security registry and the schema caches are as before the
\* call, also when supported hints precede the unsupported one.
C11_RaiseLeavesRegistriesUnchanged ==
  [][(Len(called') = Len(called) + 1 /\ appended' = appended)
       => /\ endpoints' = endpoints
          /\ securitySchemes' = securitySchemes
          /\ schemaCache' = schemaCache]_vars

\* the hints of a call that are registered: those before the first hint of
\* an unsupported kind
RECURSIVE AcceptedHints(_)
AcceptedHints(hints) ==
  IF Len(hints) = 0 \/ Head(hints).type \notin SupportedSecurityTypes
    THEN <<>>
    ELSE <<Head(hints)>> \o AcceptedHints(Tail(hints))

\* every hint registered since the last clear, in order
RECURSIVE RegisteredHints(_)
RegisteredHints(calls) ==
  IF Len(calls) = 0 THEN <<>>
  ELSE (IF Head(calls).hasSecurity THEN AcceptedHints(Head(calls).security)
        ELSE <<>>) \o RegisteredHints(Tail(calls))

\* C12: the security registry holds at most one definition per kind, under a
\* name that depends only on the kind, and the definition of a kind is the
\* one built from the most recently registered hint of that kind.
C12_OneDefinitionPerKindLatestWins ==
  LET hints == RegisteredHints(called)
  IN /\ \A i \in 1..Len(securitySchemes) :
          /\ securitySchemes[i][2].type \in SupportedSecurityTypes
          /\ securitySchemes[i][1] = securitySchemes[i][2].type \o "_"
     /\ \A kind \in SupportedSecurityTypes :
          LET defs == {i \in 1..Len(securitySchemes) :
                         securitySchemes[i][2].type = kind}
              ofKind == {j \in 1..Len(hints) : hints[j].type = kind}
          IN /\ Cardinality(defs) <= 1
             /\ (ofKind = {}) <=> (defs = {})
             /\ \A i \in defs :
                  \A j \in ofKind :
                    (\A k \in ofKind : k <= j) =>
                      securitySchemes[i][2] = securityScheme(hints[j])

\* http/basic was registered, then http/bearer: one http entry, scheme bearer
C12_Witness ==
  LET hints == RegisteredHints(called)
  IN /\ \E j, k \in 1..Len(hints) :
          j < k /\ hints[j] = HintBasic /\ hints[k] = HintBearer
             /\ \A l \in (k + 1)..Len(hints) : hints[l].type # "http"
     /\ MapHas(securitySchemes, "http_")
     /\ MapGet(securitySchemes, "http_").scheme = "bearer"

\* the scheme references the hints of the recorded exchanges of an endpoint
\* produce
SchemeReferences(key) ==
  {h.type \o "_" :
     h \in UNION {SeqRange(appended[i].security) :
                    i \in {j \in 1..Len(appended) :
                             /\ appended[j].hasSecurity
                             /\ endpointKey(appended[j].method,
                                            appended[j].path) = key}}}

\* C13: an endpoint's security list is the duplicate-free set of the scheme
\* references produced by the hints of all its exchanges: a reference is
\* attached once, and a later exchange removes none.
C13_SecurityListAccumulates ==
  \A e \in 1..Len(endpoints) :
    LET refs == SchemeReferences(endpoints[e][1])
        info == endpoints[e][2]
    IN refs # {} =>
         /\ "security" \in DOMAIN info
         /\ SeqRange(info.security) = refs
         /\ \A a, b \in 1..Len(info.security) :
              info.security[a] = info.security[b] => a = b

----------------------------------------------------------------------------
(* Properties of an endpoint's parameters, request body and headers *)

\* the recorded exchanges of an endpoint
ExchangesOf(key) ==
  {appended[i] : i \in {j \in 1..Len(appended) :
                          endpointKey(appended[j].method, appended[j].path) = key}}

\* the (name, location) pairs observed in the exchanges of an endpoint: the
\* names in braces of its templated path, the query keys, the header names
ObservedParameters(key) ==
  {<<Join(SubSeq(seg, 2, Len(seg) - 1)), "path">> :
     seg \in {sg \in SeqRange(Segments(key[2])) :
                Len(sg) > 2 /\ sg[1] = "{" /\ sg[Len(sg)] = "}"}}
  \cup {<<q[1], "query">> : q \in UNION {SeqRange(x.query) : x \in ExchangesOf(key)}}
  \cup {<<h[1], "header">> :
          h \in UNION {SeqRange(x.reqHeaders) : x \in ExchangesOf(key)}}

\* a parameter list holds exactly one parameter for each pair of a set
ExactlyOnePerPair(parameters, pairs) ==
  /\ {<<parameters[i].name, parameters[i].in>> : i \in 1..Len(parameters)} = pairs
  /\ \A a, b \in 1..Len(parameters) :
       (parameters[a].name = parameters[b].name
          /\ parameters[a].in = parameters[b].in) => a = b

\* C14: parameter identity is the (name, location) pair: an endpoint's
\* parameter list contains exactly one parameter for each distinct (name,
\* location) observed in its exchanges, also when one name is seen in two
\* locations.
C14_OneParameterPerNameAndLocation ==
  \A e \in 1..Len(endpoints) :
    ExactlyOnePerPair(endpoints[e][2].parameters,
                      ObservedParameters(endpoints[e][1]))

\* a body that is present and not empty
NonEmptyBody(v) == v.k \notin {"null", "undefined"} /\ v # VStr("")

\* the non-empty bodies observed for an endpoint under a content type, in
\* the order of their exchanges
BodiesOf(key, contentType) ==
  LET Carries(x) ==
        /\ endpointKey(x.method, x.path) = key
        /\ NonEmptyBody(x.reqBody)
        /\ OrDefault(x.reqContentType, CtJson) = contentType
      with == SelectSeq(appended, Carries)
  IN [i \in 1..Len(with) |-> with[i].reqBody]

\* the operation the document shows for an endpoint
DocOperation(key) ==
  MapGet(MapGet(DocPaths, beforeColon(key[2])), toLowerCase(key[1]))

\* C15: for a non-GET endpoint the request body schema stored under a
\* content type is the schema synthesized from the first non-empty body
\* observed for that content type, whatever bodies follow; a GET endpoint
\* never acquires a request body.
C15_FirstRequestBodyWins ==
  \A e \in 1..Len(endpoints) :
    LET key == endpoints[e][1]
        info == endpoints[e][2]
    IN IF toLowerCase(key[1]) = "get"
         THEN /\ "requestBody" \notin DOMAIN info
              /\ "requestBody" \notin DOMAIN DocOperation(key)
         ELSE /\ "requestBody" \in DOMAIN info
              /\ DocOperation(key).requestBody = info.requestBody
              /\ \A ct \in {CtJson, CtText} :
                   IF Len(BodiesOf(key, ct)) = 0
                     THEN ~MapHas(info.requestBody.content, ct)
                     ELSE /\ MapHas(info.requestBody.content, ct)
                          /\ MapGet(info.requestBody.content, ct).schema
                               = generateJsonSchema(BodiesOf(key, ct)[1])

\* two different bodies were posted under one content type and a GET with a
\* body was recorded
C15_Witness ==
  /\ \E e \in 1..Len(endpoints) :
       /\ Len(BodiesOf(endpoints[e][1], CtJson)) >= 2
       /\ BodiesOf(endpoints[e][1], CtJson)[1]
            # BodiesOf(endpoints[e][1], CtJson)[2]
  /\ \E i \in 1..Len(appended) :
       appended[i].method = "get" /\ NonEmptyBody(appended[i].reqBody)

\* POST /u was recorded with {"name":"A"} first and later with
\* {"name":"B","age":1}, under one content type
PostedNameThenAge ==
  /\ Len(BodiesOf(<<"post", PUsers>>, CtJson)) >= 2
  /\ BodiesOf(<<"post", PUsers>>, CtJson)[1] = BodyNameA
  /\ \E i \in 2..Len(BodiesOf(<<"post", PUsers>>, CtJson)) :
       BodiesOf(<<"post", PUsers>>, CtJson)[i] = BodyNameBAge

\* the request schema the document shows for POST /u under application/json
PostRequestSchema ==
  MapGet(DocOperation(<<"post", PUsers>>).requestBody.content, CtJson).schema

\* the type of a property of an object schema, "" when it has no such property
PropertyType(schema, name) ==
  IF "properties" \in DOMAIN schema /\ PropIndex(schema.properties, name) # 0
    THEN schema.properties[PropIndex(schema.properties, name)][2].type
    ELSE ""

\* C16 as stated: after POST /u with {"name":"A"} and then with
\* {"name":"B","age":1} the request schema of the document has both
\* properties, name:string and age:integer.
C16_SecondBodyMerged ==
  PostedNameThenAge =>
    /\ PropertyType(PostRequestSchema, "name") = "string"
    /\ PropertyType(PostRequestSchema, "age") = "integer"

\* the value of a header in a sequence of header/value pairs, "" when absent
HeaderValue(headers, name) ==
  IF \E i \in 1..Len(headers) : headers[i][1] = name
    THEN headers[CHOOSE i \in 1..Len(headers) : headers[i][1] = name][2]
    ELSE ""

\* the headers of the exchanges of an endpoint that answered with a status,
\* in the order of the exchanges
HeadersSeen(key, status) ==
  LET Answered(x) ==
        endpointKey(x.method, x.path) = key /\ x.status = status
      with == SelectSeq(appended, Answered)
  IN [i \in 1..Len(with) |-> with[i].resHeaders]

\* the value a header had in the most recent exchange that carried it
MostRecentValue(seen, name) ==
  HeaderValue(
    seen[CHOOSE i \in 1..Len(seen) :
           /\ HeaderValue(seen[i], name) # ""
           /\ \A j \in (i + 1)..Len(seen) : HeaderValue(seen[j], name) = ""],
    name)

\* C17: for each endpoint and status the recorded response headers contain
\* every header name seen in any exchange of that endpoint and status, each
\* with the example value of the most recent exchange that carried the name;
\* a later exchange lacking a header does not remove it.
C17_HeadersLastWriteWinsPerName ==
  \A e \in 1..Len(endpoints) :
    \A r \in 1..Len(endpoints[e][2].responses) :
      LET seen == HeadersSeen(endpoints[e][1], endpoints[e][2].responses[r][1])
          response == endpoints[e][2].responses[r][2]
      IN \A i \in 1..Len(seen) :
           \A h \in 1..Len(seen[i]) :
             /\ "headers" \in DOMAIN response
             /\ MapHas(response.headers, seen[i][h][1])
             /\ MapGet(response.headers, seen[i][h][1]).schema.example
                  = MostRecentValue(seen, seen[i][h][1])

----------------------------------------------------------------------------
(* Properties of clear() *)

\* C18: clear() empties all accumulated state. Right after it the document
\* has no paths and no security schemes and the archive has no entries, and
\* whatever is recorded and read after it leaves the store, its document and
\* its archive equal to those of a store constructed with the same base URL
\* and given the same calls.
C18_ClearedStoreIsFreshStore ==
  /\ Store = fresh
  /\ getOpenAPISpec(Store) = getOpenAPISpec(fresh)
  /\ generateHAR(harEntries, rawDataCache)
       = generateHAR(fresh.harEntries, fresh.rawDataCache)
  /\ (cleared /\ called = <<>>) =>
       /\ getOpenAPISpec(Store).paths = <<>>
       /\ getOpenAPISpec(Store).components.securitySchemes = <<>>
       /\ ArchiveEntries = <<>>

\* after a clear() the full number of exchanges was recorded again and the
\* store holds sampled schemas, a security scheme and an archive once more
C18_Witness ==
  /\ cleared
  /\ Len(called) = MaxCalls
  /\ schemaCache # <<>>
  /\ securitySchemes # <<>>
  /\ Len(harEntries) = MaxCalls

----------------------------------------------------------------------------
(* Properties of deferred decoding *)

\* the positions of the archive whose exchange has a payload that decodes
SoundPositions == {i \in 1..Len(appended) : ~DecodeFails(appended[i])}

\* the position in the archive of the k-th exchange whose payload decodes
SoundPosition(k) ==
  CHOOSE i \in SoundPositions :
    Cardinality({j \in SoundPositions : j < i}) = k - 1

\* the responses the document shows for an endpoint of the store st
ShownResponses(st, key) ==
  MapGet(processRawData(st.endpoints, st.rawDataCache), key).responses

\* C19: a payload that cannot be decoded (corrupt gzip) degrades only its own
\* archive entry and its own response: both reads return, every archive
\* entry of another exchange and every response schema of another exchange is
\* resolved exactly as in a store that never saw the failing exchanges.
C19_DecodeFailureIsolated ==
  LET entries == ArchiveEntries
      alone == generateHAR(fresh.harEntries, fresh.rawDataCache).log.entries
  IN /\ Len(alone) = Cardinality(SoundPositions)
     /\ \A k \in 1..Len(alone) : entries[SoundPosition(k)] = alone[k]
     /\ \A e \in 1..Len(fresh.endpoints) :
          LET key == fresh.endpoints[e][1]
              expected == ShownResponses(fresh, key)
          IN /\ MapHas(endpoints, key)
             /\ \A r \in 1..Len(expected) :
                  /\ MapHas(ShownResponses(Store, key), expected[r][1])
                  /\ \A c \in 1..Len(expected[r][2].content) :
                       LET shown == MapGet(ShownResponses(Store, key),
                                           expected[r][1]).content
                       IN /\ MapHas(shown, expected[r][2].content[c][1])
                          /\ MapGet(shown, expected[r][2].content[c][1])
                               = expected[r][2].content[c][2]

----------------------------------------------------------------------------
(* Properties of the proxy server *)

\* the archive holds an entry of the request
Archived(id) ==
  \E k \in 1..Len(archivedFor) :
    /\ archivedFor[k] = id
    /\ k <= Len(harStoreEntries)
    /\ harStoreEntries[k].request.method = requests[id].method
    /\ harStoreEntries[k].request.url.pathname = requests[id].path
    /\ harStoreEntries[k].response.status = requests[id].status

\* the document shows the operation of the request
Documented(id) ==
  /\ MapHas(DocPaths, openApiPath(requests[id].path))
  /\ MapHas(MapGet(DocPaths, openApiPath(requests[id].path)),
            toLowerCase(requests[id].method))

\* the archive entry and the document both show the request
Reflected(id) == Archived(id) /\ Documented(id)

\* a continuation runs only for a response that has ended
RunsAfterEnd ==
  \A id \in 1..Len(stage) :
    (stage'[id] # stage[id] /\ stage'[id] \in {"recorded", "skipped"})
      => stage[id] = "ended"

\* the step in which a continuation records an exchange appends the archive
\* entry of that exchange and the registry entry together
RecordsBothAtOnce ==
  \A id \in 1..Len(stage) :
    (stage[id] # "recorded" /\ stage'[id] = "recorded")
      => /\ archivedFor' = Append(archivedFor, id)
         /\ Len(harStoreEntries') = Len(harStoreEntries) + 1
         /\ Len(harEntries') = Len(harEntries) + 1

\* the requests whose continuation has recorded them
Recorded == {id \in 1..Len(stage) : stage[id] = "recorded"}

\* wherever another continuation or a read can run, the registry holds
\* exactly the exchanges whose continuation has run, and the archive holds
\* those of them recorded since it was last emptied
BothStoresComplete ==
  /\ Len(harStoreEntries) = Len(archivedFor)
  /\ Len(harEntries) = Cardinality(Recorded)
  /\ \A k \in 1..Len(archivedFor) :
       archivedFor[k] \in Recorded /\ Archived(archivedFor[k])
  /\ \A id \in Recorded : Documented(id)

\* C20: the continuation of a proxied exchange runs only after its response
\* has ended to the caller; once it has run, the archive entry and the
\* endpoint record of the exchange are both in place before any other
\* continuation or read is served; and every exchange whose response has
\* ended and that is not skipped as a web asset is eventually shown by both
\* the archive and the document.
C20_ContinuationRecordsBoth ==
  /\ [][RunsAfterEnd /\ RecordsBothAtOnce]_vars
  /\ []BothStoresComplete
  /\ \A id \in 1..MaxProxied :
       (/\ id <= Len(stage)
        /\ stage[id] = "ended"
        /\ ~skippedAsAsset(requests[id]))
         ~> (id <= Len(stage) /\ Reflected(id))

\* every forwarded request was recorded by its continuation, in an order
\* other than the order of arrival, and both reads were served
C20_Witness ==
  /\ Len(requests) = MaxProxied
  /\ \A id \in 1..Len(stage) : stage[id] = "recorded"
  /\ \E k \in 1..Len(archivedFor) :
       /\ k < Len(archivedFor)
       /\ archivedFor[k] > archivedFor[k + 1]
  /\ rawDataCache = <<>>
  /\ \A k \in 1..Len(harStoreEntries) :
       harStoreEntries[k].rawResponseBuffer = <<>>

----------------------------------------------------------------------------
(* Properties of the two branches of deepMergeSchemas *)

\* the merge of the synthesized schemas has been computed
MergeDone == spc \in {"merged", "copied", "paired"}

\* the position at which a schema is first seen among the inputs
FirstSeen(schema) ==
  CHOOSE i \in 1..Len(schemas) :
    schemas[i] = schema /\ \A j \in 1..(i - 1) : schemas[j] # schema

\* some input is not object-typed
MixedInputs == \E i \in 1..Len(schemas) : schemas[i].type # "object"

\* C21: deepMergeSchemas returns the generic object schema for no input, the
\* input itself for one input and, when not all inputs are object-typed, the
\* single schema when all inputs are equal and otherwise a oneOf whose
\* alternatives are exactly the distinct inputs, each once, in the order in
\* which they were first seen.
C21_DistinctInputsInFirstSeenOrder ==
  MergeDone =>
    /\ Len(schemas) = 0 => merged = [type |-> "object"]
    /\ Len(schemas) = 1 => merged = schemas[1]
    /\ (Len(schemas) >= 2 /\ MixedInputs) =>
         IF \A i \in 1..Len(schemas) : schemas[i] = schemas[1]
           THEN merged = schemas[1]
           ELSE /\ DOMAIN merged = {"type", "oneOf"}
                /\ merged.type = "object"
                /\ SeqRange(merged.oneOf) = SeqRange(schemas)
                /\ \A i, j \in 1..Len(merged.oneOf) :
                     i < j => FirstSeen(merged.oneOf[i])
                                < FirstSeen(merged.oneOf[j])

\* three inputs, not all object-typed, the first of them seen again later,
\* were merged into two alternatives
C21_Witness ==
  /\ MergeDone
  /\ Len(schemas) = 3
  /\ MixedInputs
  /\ schemas[1] = schemas[3]
  /\ schemas[1] # schemas[2]
  /\ "oneOf" \in DOMAIN merged
  /\ Len(merged.oneOf) = 2

\* the alternatives a schema stands for, each without examples and
\* descriptions: the alternatives of a oneOf at any depth of nesting, or the
\* schema itself
RECURSIVE Alternatives(_)
Alternatives(s) ==
  IF "oneOf" \in DOMAIN s
    THEN UNION {Alternatives(s.oneOf[i]) : i \in 1..Len(s.oneOf)}
    ELSE {[type |-> s.type,
           properties |->
             IF "properties" \in DOMAIN s
               THEN {<<s.properties[i][1], Alternatives(s.properties[i][2])>> :
                       i \in 1..Len(s.properties)}
               ELSE {},
           items |-> IF "items" \in DOMAIN s THEN Alternatives(s.items)
                     ELSE {}]}

\* the names of the properties of an object schema
PropertyNames(schema) ==
  IF "properties" \in DOMAIN schema
    THEN {schema.properties[i][1] : i \in 1..Len(schema.properties)}
    ELSE {}

\* the schemas the inputs give for a property, in the order of the inputs
SchemasOfProperty(name) ==
  LET Has(schema) == name \in PropertyNames(schema)
      with == SelectSeq(schemas, Has)
  IN [i \in 1..Len(with) |->
        with[i].properties[PropIndex(with[i].properties, name)][2]]

\* C22: when all inputs of deepMergeSchemas are object-typed, the property
\* names of the result are exactly the union of the property names of the
\* inputs, no property is marked required, and each property carries the
\* merge of the schemas the inputs give for it.
C22_ObjectMergeIsUnionOfProperties ==
  (MergeDone /\ Len(schemas) >= 2 /\ ~MixedInputs) =>
    /\ merged.type = "object"
    /\ "required" \notin DOMAIN merged
    /\ PropertyNames(merged)
         = UNION {PropertyNames(schemas[i]) : i \in 1..Len(schemas)}
    /\ \A name \in PropertyNames(merged) :
         Alternatives(
           merged.properties[PropIndex(merged.properties, name)][2])
           = Alternatives(deepMergeSchemas(SchemasOfProperty(name)))

----------------------------------------------------------------------------
(* Properties of malformed-content recovery *)

\* C23: generateSchemaFromStructure returns a schema for every text: an
\* array schema when the trimmed text starts with [ and ends with ], an
\* object schema when it starts with { and ends with }, and in every other
\* case a string schema described as unstructured content.
C23_StructureByDelimiters ==
  inferred # NoSchema =>
    LET visible == {i \in 1..Len(unparsed) : unparsed[i] # " "}
        first == IF visible = {} THEN ""
                 ELSE unparsed[CHOOSE i \in visible : \A j \in visible : i <= j]
        last == IF visible = {} THEN ""
                ELSE unparsed[CHOOSE i \in visible : \A j \in visible : i >= j]
    IN /\ inferred.type \in {"array", "object", "string"}
       /\ inferred.type = "array" <=> (first = "[" /\ last = "]")
       /\ inferred.type = "object" <=> (first = "{" /\ last = "}")
       /\ inferred.type = "string" =>
            inferred = [type |-> "string",
                        description |-> "Unstructured content"]

\* an object-like text with white space around it and a bare key was analysed
C23_Witness ==
  /\ inferred # NoSchema
  /\ Len(unparsed) = MaxTextLen
  /\ unparsed[1] = " "
  /\ unparsed[2] = "{"
  /\ unparsed[Len(unparsed)] = "}"
  /\ inferred.type = "object"
  /\ "properties" \in DOMAIN inferred

----------------------------------------------------------------------------
(* Properties of JSON-like response bodies *)

\* the schema the document shows for the response of an exchange under the
\* JSON content type
SchemaShownFor(x) ==
  ShownSchema(<<endpointKey(x.method, x.path), x.status, CtJson>>)

\* the schema is an object schema with the properties id and name
IsIdNameObject(schema) ==
  /\ schema.type = "object"
  /\ "properties" \in DOMAIN schema
  /\ MapHas(schema.properties, "id")
  /\ MapHas(schema.properties, "name")

\* C24: an exchange whose response body is the JSON-like text
\* {id:1,name:'A'}, recorded for a JSON content type, is shown by the
\* document with an object schema with the properties id and name, whether
\* the body came as raw bytes or as text.
C24_LooseJsonBecomesObject ==
  \A i \in 1..Len(appended) : IsIdNameObject(SchemaShownFor(appended[i]))

\* the same, for the bodies that came as raw bytes only
C24_LooseRawBytesBecomeObject ==
  \A i \in 1..Len(appended) :
    hasRawData(appended[i].rawData) => IsIdNameObject(SchemaShownFor(appended[i]))

----------------------------------------------------------------------------
(* Properties of the harRecorder middleware *)

\* the runs of the middleware that recorded their exchange
StoredRuns == {i \in 1..Len(mwLog) : mwLog[i].stored}

\* C25: harRecorder never fails because of recording: an error thrown
\* while the exchange is extracted or recorded, after the downstream handler
\* returned, is swallowed and the middleware resolves; an error thrown by the
\* downstream handler is rethrown, and no exchange is recorded for that
\* request.
C25_OnlyDownstreamErrorsEscape ==
  /\ \A i \in 1..Len(mwLog) :
       /\ mwLog[i].request.recorder = "harRecorder" =>
            (mwLog[i].outcome = "rejected" <=> mwLog[i].request.fault = "next")
       /\ mwLog[i].outcome = "rejected" => (~mwLog[i].stored /\ ~mwLog[i].raised)
       /\ mwLog[i].raised => ~mwLog[i].stored
  /\ Len(harEntries) = Cardinality(StoredRuns)
  /\ \A id \in RunsAt("response") : mwReq[id].fault # "next"

\* a run of harRecorder could not read the response and then had
\* store.recordEndpoint throw, and resolved; the downstream handler of
\* another request, which entered later and finished first, threw, and that
\* run was rejected; nothing was archived
C25_Witness ==
  /\ Len(mwLog) = MaxRequests
  /\ \E i, j \in 1..Len(mwLog) :
       /\ mwLog[i].request.recorder = "harRecorder"
       /\ mwLog[i].request.fault = "resClone"
       /\ mwLog[i].raised
       /\ mwLog[i].outcome = "resolved"
       /\ mwLog[j].request.recorder = "harRecorder"
       /\ mwLog[j].request.fault = "next"
       /\ mwLog[j].outcome = "rejected"
  /\ mwReq[1] # mwReq[2]
  /\ mwLog[1].request.method = mwReq[2].method
  /\ mwLog[1].request.fault = mwReq[2].fault
  /\ Len(harEntries) = 0

----------------------------------------------------------------------------
(* Properties of the deferred payloads *)

\* the positions of the archive whose exchange came as raw bytes
RawPositions == {i \in 1..Len(appended) : hasRawData(appended[i].rawData)}

\* the text generateHAR() returns for the entry at a position
ArchivedText(i) == ArchiveEntries[i].response.content.text

\* C26: reading the document does not interfere with the archive: for every
\* exchange recorded as raw bytes the next generateHAR() returns the entry
\* with its decoded text, not the placeholder, whether or not
\* getOpenAPISpec() was called between the recording and the read.
C26_DocumentReadLeavesArchive ==
  [][GetOpenAPISpec =>
       /\ generateHAR(harEntries', rawDataCache').log.entries = ArchiveEntries
       /\ \A i \in RawPositions : ArchivedText(i) # HarPlaceholder]_vars

\* the text the payload of an exchange decodes to
PayloadText(x) ==
  IF includesGzip(headerValue(x.resHeaders, "content-encoding"))
    THEN IF gunzipSync(x.rawData).ok
           THEN decodedText(gunzipSync(x.rawData).text, x.resContentType)
           ELSE HarError
    ELSE decodedText(toStringUtf8(x.rawData), x.resContentType)

\* no read has been made since the exchanges were recorded
BeforeFirstRead ==
  \A i \in RawPositions : harEntries[i].response.content.text = HarPlaceholder

\* C27: each archive entry is a snapshot of its own exchange: when several
\* raw exchanges with the same concrete path and method and different
\* payloads are recorded before the first read, generateHAR() resolves each
\* of their entries to the decoded payload of the exchange that created it.
C27_EntryKeepsOwnPayload ==
  BeforeFirstRead =>
    \A i \in RawPositions : ArchivedText(i) = PayloadText(appended[i])

\* the response schema the endpoints eps hold for the slot of an exchange
StoredSchema(eps, x) ==
  MapGet(MapGet(MapGet(eps, endpointKey(x.method, x.path)).responses,
                x.status).content,
         CtJson).schema

\* the raw exchanges recorded so far have pairwise different statuses or
\* different concrete paths or methods
OneStatusPerSlot ==
  \A i, j \in RawPositions :
    (appended[i].path = appended[j].path /\ appended[i].method = appended[j].method)
      => appended[i].status = appended[j].status

\* C28: deferred schema generation completes for every slot: after
\* getOpenAPISpec() returns, no response for which a raw exchange was
\* recorded still carries the placeholder schema, also when one concrete
\* path and method was recorded with two statuses, or two concrete paths map
\* to one templated endpoint, before the read.
C28_NoPlaceholderAfterDocumentRead ==
  [][GetOpenAPISpec =>
       \A i \in RawPositions :
         StoredSchema(endpoints', appended[i]) # DeferredSchema]_vars

\* the same, when no concrete path and method was recorded with two statuses
C28_NoPlaceholderWithOneStatusPerSlot ==
  [][(GetOpenAPISpec /\ OneStatusPerSlot) =>
       \A i \in RawPositions :
         StoredSchema(endpoints', appended[i]) # DeferredSchema]_vars

----------------------------------------------------------------------------
(* Properties of the archive as a sequence *)

\* an archive entry without its response text
WithoutText(e) == [e EXCEPT !.response.content.text = ""]

\* every entry of the archive stays in place; of its fields only the
\* response text changes, from the placeholder to a resolved text
EntriesKept ==
  /\ Len(harEntries') >= Len(harEntries)
  /\ \A i \in 1..Len(harEntries) :
       /\ WithoutText(harEntries'[i]) = WithoutText(harEntries[i])
       /\ harEntries'[i] # harEntries[i] =>
            /\ harEntries[i].response.content.text = HarPlaceholder
            /\ harEntries'[i].response.content.text # HarPlaceholder

\* the entries are those of the calls that returned, in the order of the calls
EntriesInCallOrder ==
  /\ Len(harEntries) = Len(appended)
  /\ \A i \in 1..Len(appended) :
       WithoutText(harEntries[i])
         = WithoutText(harEntry(harEntries[i].request.url.origin, appended[i]))

\* C29: the archive is append-only between clears: its entries are in the
\* order of the calls that created them, and no recordEndpoint,
\* getOpenAPISpec, generateHAR or setTargetUrl removes or reorders an entry;
\* the only field of an entry that changes is the deferred response text,
\* at most once, from the placeholder to its resolved text.
C29_ArchiveAppendOnly ==
  /\ [][Clear \/ EntriesKept]_vars
  /\ []EntriesInCallOrder

C29_Witness ==
  /\ Len(harEntries) = MaxCalls
  /\ \E i, j \in RawPositions :
       /\ i < j
       /\ harEntries[i].response.content.text
            \notin {HarPlaceholder, HarError}
       /\ harEntries[j].response.content.text = HarPlaceholder
  /\ \E i \in 1..Len(appended) : ~hasRawData(appended[i].rawData)
  /\ \E i, j \in 1..Len(harEntries) :
       harEntries[i].request.url.origin # harEntries[j].request.url.origin

----------------------------------------------------------------------------
(* Properties of path templating, segment by segment *)

\* the segment carries a colon marker
IsColonMarked(seg) == \E i \in 1..Len(seg) : seg[i] = ":"

\* the segment starts with a digit
StartsWithDigit(seg) == Len(seg) > 0 /\ seg[1] \in Digits

\* C30: path templating changes a path only at purely numeric segments
\* (replaced by {id}) and at colon-marked segments (:name replaced by
\* {name}); every other segment, one that merely starts with digits such
\* as /2fa or /123abc included, is left unchanged.
C30_OnlyParameterSegmentsChange ==
  ppc # "start" =>
    LET sp == Segments(path)
        st == Segments(key1[2])
    IN /\ Len(st) = Len(sp)
       /\ \A i \in 1..Len(sp) :
            (~IsNumericSegment(sp[i]) /\ ~IsColonMarked(sp[i]))
              => st[i] = sp[i]

\* the same, for the segments that do not start with a digit
C30_SegmentsWithoutLeadingDigitKept ==
  ppc # "start" =>
    LET sp == Segments(path)
        st == Segments(key1[2])
    IN /\ Len(st) = Len(sp)
       /\ \A i \in 1..Len(sp) :
            (~StartsWithDigit(sp[i]) /\ ~IsColonMarked(sp[i]))
              => st[i] = sp[i]

====
